---- MODULE Spec2Model ----
(***************************************************************************)
(* The dispatch engine of the tansu broker (tansu-server/src/broker.rs):   *)
(* serve = register + listen, the accept loop that spawns one task per     *)
(* connection, and the per-connection read loop stream_handler with        *)
(* process_request and response_for.  Peers, the socket, the storage       *)
(* engine and the group coordinator are the environment.                   *)
(***************************************************************************)
EXTENDS Integers, Sequences, FiniteSets, TLC

\* ------------------------------------------------------------------ bounds
MaxFrames == 2       \* frames the peers send, over all connections

\* the connections the listener accepts
Conns == { 1, 2 }

\* ------------------------------------------------------------- the protocol
\* Every arm of response_for, and "Unhandled" for a body that reaches the
\* catch-all arm.
ApiNames ==
  { "AddOffsetsToTxn", "AddPartitionsToTxn", "ApiVersions", "ConsumerGroupDescribe",
    "CreateTopics", "DeleteGroups", "DeleteRecords", "DeleteTopics",
    "DescribeCluster", "DescribeConfigs", "DescribeGroups", "Fetch",
    "FindCoordinator", "GetTelemetrySubscriptions", "Heartbeat", "InitProducerId",
    "JoinGroup", "LeaveGroup", "ListGroups", "ListOffsets",
    "ListPartitionReassignments", "Metadata", "OffsetCommit", "OffsetFetch",
    "Produce", "SyncGroup", "TxnOffsetCommit", "EndTxn", "Unhandled" }

\* the requests the peers send: one arm of each kind
ClientApis ==
  { "Produce", "ListGroups", "ApiVersions", "Heartbeat", "ListOffsets", "Unhandled" }

\* the correlation ids and the api versions the peers use
CorrelationIds == { 1, 2 }
Versions == { 0, 1 }

\* arms that answer without any call on storage or coordinator
StaticApis == { "ApiVersions", "FindCoordinator", "GetTelemetrySubscriptions" }

\* arms that call self.storage directly and return its Result, map_err(Into::into)
DirectStorageApis ==
  { "ConsumerGroupDescribe", "DeleteGroups", "DescribeGroups", "ListGroups", "EndTxn" }

\* arms that call self.groups (the coordinator) and return its Result
CoordinatorApis ==
  { "Heartbeat", "JoinGroup", "LeaveGroup", "OffsetCommit", "OffsetFetch", "SyncGroup" }

\* arms that hand a clone of the storage handle to a helper module
HelperApis ==
  { "AddOffsetsToTxn", "AddPartitionsToTxn", "CreateTopics", "DeleteRecords",
    "DeleteTopics", "DescribeCluster", "DescribeConfigs", "Fetch",
    "InitProducerId", "ListOffsets", "ListPartitionReassignments", "Metadata",
    "Produce", "TxnOffsetCommit" }

\* every group api is handed to the coordinator
Delegate_groups(api) ==
  IF api \in StaticApis THEN "self"
  ELSE IF api \in CoordinatorApis \cup ( DirectStorageApis \ { "EndTxn" } ) THEN "coordinator"
  ELSE IF api \in HelperApis \cup { "EndTxn" } THEN "storage"
  ELSE "none"

\* which handle serves an arm
Delegate(api) ==
  IF api \in StaticApis THEN "self"
  ELSE IF api \in CoordinatorApis THEN "coordinator"
  ELSE IF api \in DirectStorageApis \cup HelperApis THEN "storage"
  ELSE "none"

\* IsolationLevel::try_from: 0 = read uncommitted, 1 = read committed
ValidIsolation == {0, 1}

\* The argument of a body that the dispatcher looks at: acks of a Produce,
\* the optional isolation_level of a ListOffsets, the optional max_bytes of
\* a Fetch (<<>> is None).
Args(api) ==
  IF api = "Produce" THEN { <<0>>, <<1>> }
  ELSE IF api = "ListOffsets" THEN { <<>>, <<2>> }
  ELSE IF api = "Fetch" THEN { <<>>, <<1024>> }
  ELSE { <<>> }

Requests ==
  UNION { [ api_key : {a}, api_version : Versions,
            correlation_id : CorrelationIds, arg : Args(a) ] : a \in ClientApis }

\* a request for every arm of response_for
AllRequests ==
  UNION { [ api_key : {a}, api_version : Versions,
            correlation_id : CorrelationIds, arg : Args(a) ] : a \in ApiNames }

NoRequest == [ api_key |-> "none", api_version |-> 0, correlation_id |-> 0, arg |-> <<>> ]

NoCall == "none"

\* Body of a response: the variant answering api, with or without an error code
ResponseBody(api, call) ==
  [ api |-> api, error_code |-> IF call = "err" THEN "Error" ELSE "None" ]

NoResponse ==
  [ correlation_id |-> 0, api_key |-> "none", api_version |-> 0,
    body |-> [ api |-> "none", error_code |-> "None" ] ]

\* Frame::response(Header::Response { correlation_id }, body, api_key, api_version)
Frame_response(correlation_id, body, api_key, api_version) ==
  [ correlation_id |-> correlation_id, api_key |-> api_key,
    api_version |-> api_version, body |-> body ]

\* a response built from the header of another exchange
process_request_stale(req, body) ==
  Frame_response(1, body, req.api_key, 0)

\* process_request threads the decoded header into the response frame
process_request(req, body) ==
  Frame_response(req.correlation_id, body, req.api_key, req.api_version)

\* ------------------------------------------------------------- attributes
\* Option<T>: None is the empty tuple, Some(x) the tuple of x
None == << >>
Some(x) == << x >>

RECURSIVE Sum(_)
\* Iterator::sum over a sequence of numbers
Sum(seq) == IF seq = << >> THEN 0 ELSE Head(seq) + Sum(Tail(seq))

\* topic_data of a Produce body, when the body carries one: an optional
\* sequence of topics, a topic being its optional partition_data, a partition
\* its optional records frame, a frame the record_count of each of its batches
TopicData(r) == IF Len(r.arg) < 2 THEN None ELSE r.arg[2]

\* the `records` attribute counts the batches
Records_batches(topic_data) ==
  IF topic_data = None THEN 0
  ELSE Sum([ t \in 1..Len(topic_data[1]) |->
         LET partition_data == topic_data[1][t] IN
         IF partition_data = None THEN 0
         ELSE Sum([ p \in 1..Len(partition_data[1]) |->
                LET records == partition_data[1][p] IN
                IF records = None THEN 0 ELSE Len(records[1]) ]) ])

\* the `records` attribute: map_or(0, ..) at each level and the sum of
\* batch.record_count over the batches of each frame
Records(topic_data) ==
  IF topic_data = None THEN 0
  ELSE Sum([ t \in 1..Len(topic_data[1]) |->
         LET partition_data == topic_data[1][t] IN
         IF partition_data = None THEN 0
         ELSE Sum([ p \in 1..Len(partition_data[1]) |->
                LET records == partition_data[1][p] IN
                IF records = None THEN 0 ELSE Sum(records[1]) ]) ])

\* an attribute whose value is a field of the body that is not modelled
Field(k) == << k, "field" >>

\* attributes(api_key, api_version, correlation_id, body): the attributes that
\* do not depend on an optional field of the body other than isolation_level
attributes(r) ==
  LET base == { << "api_key", r.api_key >>, << "api_version", r.api_version >>,
                << "correlation_id", r.correlation_id >> }
      named(name, fields) ==
        base \cup { << "api_name", name >> } \cup { Field(k) : k \in fields }
  IN CASE r.api_key = "AddOffsetsToTxn" ->
            named("add_offsets_to_txn",
                  { "transactional_id", "producer_id", "producer_epoch", "group_id" })
       [] r.api_key = "AddPartitionsToTxn" -> named("add_partitions_to_txn", {})
       [] r.api_key = "ApiVersions" -> named("api_versions", {})
       [] r.api_key = "CreateTopics" -> named("create_topics", {})
       [] r.api_key = "DeleteTopics" -> named("delete_topics", {})
       [] r.api_key = "EndTxn" ->
            named("end_txn",
                  { "transactional_id", "producer_id", "producer_epoch", "committed" })
       [] r.api_key = "Fetch" ->
            \* `if let Some(max_bytes)` makes a KeyValue of max_bytes and drops
            \* it: nothing is pushed whether max_bytes is present or not
            named("fetch", { "max_wait_ms", "min_bytes" })
       [] r.api_key = "FindCoordinator" -> named("find_coordinator", {})
       [] r.api_key = "InitProducerId" ->
            named("init_producer_id", { "transaction_timeout_ms" })
       [] r.api_key = "JoinGroup" ->
            named("join_group",
                  { "group_id", "session_timeout_ms", "member_id", "protocol_type" })
       [] r.api_key = "LeaveGroup" -> named("leave_group", { "group_id", "members" })
       [] r.api_key = "ListOffsets" ->
            named("list_offsets", { "replica_id", "topics" })
              \cup ( IF r.arg = None THEN {}
                     ELSE { << "isolation_level", r.arg[1] >> } )
       [] r.api_key = "Metadata" -> named("metadata", { "topics" })
       [] r.api_key = "OffsetFetch" -> named("offset_fetch", { "topics", "groups" })
       [] r.api_key = "Produce" ->
            named("produce", { "timeout_ms" })
              \cup { << "records", Records(TopicData(r)) >>, << "acks", r.arg[1] >> }
       [] r.api_key = "SyncGroup" ->
            named("sync_group",
                  { "group_id", "generation_id", "member_id", "assignments" })
       [] r.api_key = "TxnOffsetCommit" ->
            named("txn_offset_commit",
                  { "transactional_id", "group_id", "producer_id", "producer_epoch",
                    "topics" })
       [] OTHER -> base

\* ------------------------------------------------------------------- errors
NoError == [ err |-> "none", kind |-> "none" ]
IoError(kind) == [ err |-> "Io", kind |-> kind ]
OtherError(what) == [ err |-> what, kind |-> "none" ]

\* the error kinds listen() lets pass without a log
SilentKinds == { "UnexpectedEof", "BrokenPipe", "ConnectionReset" }

\* the match in the spawned task of listen(): the sites that log at error level
ListenSites(error) ==
  IF error.err = "Io" /\ error.kind \in SilentKinds THEN {}
  ELSE IF error.err \in { "none", "Panic" } THEN {}
  ELSE { "listen" }

\* inspect_err of the size-prefix read
ReadSizeSites(kind) ==
  IF kind \in { "UnexpectedEof", "ConnectionReset" } THEN {} ELSE { "read_size" }

\* the error of a task ends the accept loop
ListenAfterTask_joined(m, error) ==
  IF error.err = "none" THEN m ELSE "task_failed"

\* `_ = tokio::spawn(..)`: the accept loop goes on whatever the task returns
ListenAfterTask(m, error) == m

\* ----------------------------------------------------------- the environment
\* what a read fails with once the peer is gone and no buffered byte is left:
\* end of stream after a close, a reset, or any other error of the socket
ReadErrors(s) ==
  IF s = "gone" THEN { "UnexpectedEof", "ConnectionReset", "TimedOut" } ELSE {}

\* what a write may fail with once the peer is gone
WriteErrors(s) ==
  IF s = "gone" THEN { "BrokenPipe", "ConnectionReset", "TimedOut" } ELSE {}

\* a write succeeds on an open socket, and into the send buffer of one whose
\* peer has closed
WriteSucceeds(s) == s \in { "open", "gone" }

\* buffered bytes are delivered on an open socket and after a close of the peer
ReadSucceeds(s) == s \in { "open", "gone" }

\* size prefixes the peers send
Sizes == { -1, 0, 1 }

Complete(f) == f.size <= 0 \/ f.have = f.size

Frames == { f \in [ size : Sizes, have : 0..1 ] : f.have <= f.size \/ f.have = 0 }

\* size prefixes on either side of the wrap of size + 4, and i32::MIN
PrefixSizes == { -2147483647 - 1, -6, -5, -4, -3, -2, -1, 0, 1 }

PrefixFrames ==
  { f \in [ size : PrefixSizes, have : 0..1 ] : f.have <= f.size \/ f.have = 0 }

\* ----------------------------------------------------------- the record codec
(***************************************************************************)
(* tansu-kafka-sans-io/src/record.rs: Record, its Builder, and the batch   *)
(* that carries records.  Bytes are numbers 0..255 and an encoding is a    *)
(* sequence of them.                                                       *)
(***************************************************************************)

\* signed varint: zig-zag, then base-128 groups, least significant first.
\* The zig-zag value 2 * Magnitude(n) + Sign(n) is never formed, so every
\* i32 stays inside 32-bit integers.
Magnitude(n) == IF n >= 0 THEN n ELSE -(n + 1)
Sign(n) == IF n >= 0 THEN 0 ELSE 1

RECURSIVE Groups(_)
Groups(u) ==
  IF u < 128 THEN << u >> ELSE << 128 + (u % 128) >> \o Groups(u \div 128)

VarIntBytes(n) ==
  LET low == 2 * (Magnitude(n) % 64) + Sign(n)
      high == Magnitude(n) \div 64
  IN IF high = 0 THEN << low >> ELSE << 128 + low >> \o Groups(high)

RECURSIVE GroupCount(_)
GroupCount(u) == IF u < 128 THEN 1 ELSE 1 + GroupCount(u \div 128)

VarIntSize(n) ==
  IF Magnitude(n) < 64 THEN 1 ELSE 1 + GroupCount(Magnitude(n) \div 64)

\* a decoder reads from the front of the input and returns the set of its
\* results: the value with the input left over, or nothing when the input is
\* malformed
Malformed == { }
Taken(v, rest) == [ value |-> v, rest |-> rest ]
Read(v, rest) == { Taken(v, rest) }

RECURSIVE Ungroup(_)
Ungroup(bytes) ==
  IF bytes = << >> THEN Malformed
  ELSE IF bytes[1] < 128 THEN Read(bytes[1], Tail(bytes))
  ELSE { Taken(bytes[1] - 128 + 128 * more.value, more.rest) :
           more \in Ungroup(Tail(bytes)) }

\* the number whose zig-zag value has the low group `low` (7 bits) and the
\* groups above it worth `high`
Unzigzag(low, high) ==
  IF low % 2 = 0 THEN (low \div 2) + 64 * high ELSE - ((low \div 2) + 64 * high) - 1

VarIntRead(bytes) ==
  IF bytes = << >> THEN Malformed
  ELSE { Taken(Unzigzag(bytes[1] % 128, high.value), high.rest) :
           high \in (IF bytes[1] < 128 THEN Read(0, Tail(bytes))
                     ELSE Ungroup(Tail(bytes))) }

\* fixed-width big-endian two's complement, w bytes
RECURSIVE BE(_, _)
BE(n, w) == IF w = 0 THEN << >> ELSE BE(n \div 256, w - 1) \o << n % 256 >>

RECURSIVE Unsigned(_)
Unsigned(bytes) ==
  IF bytes = << >> THEN 0
  ELSE 256 * Unsigned(SubSeq(bytes, 1, Len(bytes) - 1)) + bytes[Len(bytes)]

Signed(bytes) ==
  IF bytes[1] < 128 THEN Unsigned(bytes)
  ELSE - Unsigned([ i \in 1..Len(bytes) |-> 255 - bytes[i] ]) - 1

FixedRead(bytes, w) ==
  IF Len(bytes) < w THEN Malformed
  ELSE Read(Signed(SubSeq(bytes, 1, w)), SubSeq(bytes, w + 1, Len(bytes)))

\* an i64 that need not fit 32-bit integers is held in two limbs,
\* << high, low >> for high * 2^24 + low with 0 <= low < 2^24
Limb == 2 ^ 24
I64(n) == << n \div Limb, n % Limb >>
I64Bytes(v) == BE(v[1], 5) \o BE(v[2], 3)
I64Read(bytes) ==
  IF Len(bytes) < 8 THEN Malformed
  ELSE Read(<< Signed(SubSeq(bytes, 1, 5)), Unsigned(SubSeq(bytes, 6, 8)) >>,
            SubSeq(bytes, 9, Len(bytes)))

\* Octets: a nullable byte sequence behind a varint length, -1 for absent
OctetsBytes(o) ==
  IF o = None THEN VarIntBytes(-1) ELSE VarIntBytes(Len(o[1])) \o o[1]

OctetsSize(o) ==
  IF o = None THEN VarIntSize(-1) ELSE VarIntSize(Len(o[1])) + Len(o[1])

OctetsRead(bytes) ==
  UNION { IF n.value = -1 THEN Read(None, n.rest)
          ELSE IF n.value < 0 \/ n.value > Len(n.rest) THEN Malformed
          ELSE Read(Some(SubSeq(n.rest, 1, n.value)),
                    SubSeq(n.rest, n.value + 1, Len(n.rest))) :
          n \in VarIntRead(bytes) }

\* Header: a key (string) and a nullable value, each behind a varint length
HeaderBytes(h) == VarIntBytes(Len(h.key)) \o h.key \o OctetsBytes(h.value)
HeaderSize(h) == VarIntSize(Len(h.key)) + Len(h.key) + OctetsSize(h.value)

HeaderRead(bytes) ==
  UNION { { Taken([ key |-> k.value[1], value |-> v.value ], v.rest) :
              v \in OctetsRead(k.rest) } :
          k \in { o \in OctetsRead(bytes) : o.value # None } }

RECURSIVE Concat(_)
Concat(seqs) == IF seqs = << >> THEN << >> ELSE Head(seqs) \o Concat(Tail(seqs))

\* VarIntSequence: a varint count, then the elements
HeadersBytes(hs) ==
  VarIntBytes(Len(hs)) \o Concat([ i \in 1..Len(hs) |-> HeaderBytes(hs[i]) ])

HeadersSize(hs) ==
  VarIntSize(Len(hs)) + Sum([ i \in 1..Len(hs) |-> HeaderSize(hs[i]) ])

RECURSIVE HeadersReadN(_, _)
HeadersReadN(bytes, n) ==
  IF n = 0 THEN Read(<< >>, bytes)
  ELSE UNION { { Taken(<< h.value >> \o more.value, more.rest) :
                   more \in HeadersReadN(h.rest, n - 1) } :
               h \in HeaderRead(bytes) }

HeadersRead(bytes) ==
  UNION { IF n.value < 0 THEN Malformed ELSE HeadersReadN(n.rest, n.value) :
          n \in VarIntRead(bytes) }

\* CRC-32C (CRC_32_ISCSI): reflected, polynomial 0x82F63B78, initial value and
\* final xor 0xFFFFFFFF.  The register is 32 bits, least significant first.
Bits(n, w) == [ i \in 1..w |-> (n \div 2 ^ (i - 1)) % 2 ]
\* (SubSeq makes the result a tuple, so that no chain of unevaluated
\* functions builds up over the bytes of the input)
Xor(a, b) == SubSeq([ i \in 1..Len(a) |-> (a[i] + b[i]) % 2 ], 1, Len(a))
Castagnoli == Bits(15224, 16) \o Bits(33526, 16)
Ones == [ i \in 1..32 |-> 1 ]

RECURSIVE Shifted(_, _)
Shifted(reg, k) ==
  IF k = 0 THEN reg
  ELSE LET down == Tail(reg) \o << 0 >>
       IN Shifted(IF reg[1] = 1 THEN Xor(down, Castagnoli) ELSE down, k - 1)

RECURSIVE Digest(_, _)
Digest(reg, bytes) ==
  IF bytes = << >> \/ Len(reg) # 32 THEN reg
  ELSE Digest(Shifted(Xor(reg, Bits(Head(bytes), 8) \o [ i \in 1..24 |-> 0 ]), 8),
              Tail(bytes))

\* (variant: the register is not inverted at the end)
Crc32c_raw(bytes) ==
  LET reg == Digest(Ones, bytes)
  IN [ k \in 1..4 |-> Sum([ i \in 1..8 |-> reg[8 * (4 - k) + i] * 2 ^ (i - 1) ]) ]

\* the u32 checksum, as its four big-endian bytes
Crc32c(bytes) ==
  LET reg == Xor(Digest(Ones, bytes), Ones)
  IN [ k \in 1..4 |-> Sum([ i \in 1..8 |-> reg[8 * (4 - k) + i] * 2 ^ (i - 1) ]) ]

\* Sequence: an i32 count (never zig-zagged), then the elements
SequenceBytes(items) == BE(Len(items), 4) \o Concat(items)

\* (variant: a VarInt is read without its sign)
FieldRead_unsigned(kind, bytes) ==
  CASE kind = "VarInt" -> { Taken(Magnitude(r.value), r.rest) : r \in VarIntRead(bytes) }
    [] kind = "Octets" -> OctetsRead(bytes)
    [] kind = "VarIntSequence" -> HeadersRead(bytes)
    [] kind = "u8" -> IF bytes = << >> THEN Malformed ELSE Read(bytes[1], Tail(bytes))
    [] kind = "i8" -> FixedRead(bytes, 1)
    [] kind = "i16" -> FixedRead(bytes, 2)
    [] kind = "i32" -> FixedRead(bytes, 4)
    [] kind = "i64" -> I64Read(bytes)
    [] kind = "u32" -> IF Len(bytes) < 4 THEN Malformed
                       ELSE Read(SubSeq(bytes, 1, 4), SubSeq(bytes, 5, Len(bytes)))

\* one field of a struct, read by the codec its serde attribute names
FieldRead(kind, bytes) ==
  CASE kind = "VarInt" -> VarIntRead(bytes)
    [] kind = "Octets" -> OctetsRead(bytes)
    [] kind = "VarIntSequence" -> HeadersRead(bytes)
    [] kind = "u8" -> IF bytes = << >> THEN Malformed ELSE Read(bytes[1], Tail(bytes))
    [] kind = "i8" -> FixedRead(bytes, 1)
    [] kind = "i16" -> FixedRead(bytes, 2)
    [] kind = "i32" -> FixedRead(bytes, 4)
    [] kind = "i64" -> I64Read(bytes)
    [] kind = "u32" -> IF Len(bytes) < 4 THEN Malformed
                       ELSE Read(SubSeq(bytes, 1, 4), SubSeq(bytes, 5, Len(bytes)))

\* the fields of a struct, in declaration order
RECURSIVE FieldsRead(_, _)
FieldsRead(kinds, bytes) ==
  IF kinds = << >> THEN Read(<< >>, bytes)
  ELSE UNION { { Taken(<< f.value >> \o more.value, more.rest) :
                   more \in FieldsRead(Tail(kinds), f.rest) } :
               f \in FieldRead(Head(kinds), bytes) }

\* (variant: the attributes byte is not counted)
size_in_bytes_fields(b) ==
  VarIntSize(b.timestamp_delta) + VarIntSize(b.offset_delta)
    + OctetsSize(b.key) + OctetsSize(b.value) + HeadersSize(b.headers)

\* ByteSize for Builder: the attributes byte and the size of every other field
size_in_bytes(b) ==
  1 + VarIntSize(b.timestamp_delta) + VarIntSize(b.offset_delta)
    + OctetsSize(b.key) + OctetsSize(b.value) + HeadersSize(b.headers)

\* (variant: a value of zero length counts as no value)
is_tombstone_empty(r) == r.key # None /\ r.value \in { None, Some(<< >>) }

\* Record::is_tombstone
is_tombstone(r) == r.key # None /\ r.value = None

\* (variant: the key of the record becomes the value of the builder too)
from_keyed(value) ==
  [ attributes |-> value.attributes, timestamp_delta |-> value.timestamp_delta,
    offset_delta |-> value.offset_delta, key |-> value.key, value |-> value.key,
    headers |-> value.headers ]

\* From<Record> for Builder: every field but the length
from(value) ==
  [ attributes |-> value.attributes, timestamp_delta |-> value.timestamp_delta,
    offset_delta |-> value.offset_delta, key |-> value.key, value |-> value.value,
    headers |-> value.headers ]

\* (variant: the record is built with offset_delta 0)
try_from_rebased(b) ==
  [ length |-> size_in_bytes(b), attributes |-> b.attributes,
    timestamp_delta |-> b.timestamp_delta, offset_delta |-> 0,
    key |-> b.key, value |-> b.value, headers |-> b.headers ]

\* TryFrom<Builder> for Record (the sizes of the model fit an i32, so the
\* conversion of the length succeeds)
try_from(b) ==
  [ length |-> size_in_bytes(b), attributes |-> b.attributes,
    timestamp_delta |-> b.timestamp_delta, offset_delta |-> b.offset_delta,
    key |-> b.key, value |-> b.value, headers |-> b.headers ]

\* (variant: the fields without the size in front)
serialize_unprefixed(b) ==
  << b.attributes >>
    \o VarIntBytes(b.timestamp_delta) \o VarIntBytes(b.offset_delta)
    \o OctetsBytes(b.key) \o OctetsBytes(b.value) \o HeadersBytes(b.headers)

\* Serialize for Builder: the size as a VarInt, then the fields
serialize(b) ==
  VarIntBytes(size_in_bytes(b)) \o << b.attributes >>
    \o VarIntBytes(b.timestamp_delta) \o VarIntBytes(b.offset_delta)
    \o OctetsBytes(b.key) \o OctetsBytes(b.value) \o HeadersBytes(b.headers)

\* i32::MAX and i32::MIN
MaxI32 == 2147483647
MinI32 == -2147483647 - 1

\* the elements Serialize for Builder hands to the serializer, in the order
\* of the calls: the size as a VarInt, then the six fields
Elements(b) ==
  << VarIntBytes(size_in_bytes(b)), << b.attributes >>,
     VarIntBytes(b.timestamp_delta), VarIntBytes(b.offset_delta),
     OctetsBytes(b.key), OctetsBytes(b.value), HeadersBytes(b.headers) >>

\* Serialize for Builder on a serializer whose calls in `failing` return Err
\* (1 the size, 2..7 the fields, 8 s.end()).  The arguments of .and(..) are
\* evaluated whatever the receiver is, so every call is made, and a call that
\* fails writes nothing.  The closure given to .map(..) returns the Result of
\* the size element inside the Ok of size_in_bytes(), and .and(..) drops
\* it: what is returned is the first Err among the fields and s.end().
serialize_into(b, failing) ==
  [ bytes |-> Concat([ i \in 1..7 |->
                IF i \in failing \/ (i = 1 /\ size_in_bytes(b) > MaxI32)
                THEN << >> ELSE Elements(b)[i] ]),
    result |-> IF failing \cap 2..8 = {} THEN "Ok" ELSE "Err" ]

\* (variant: value written before key)
RecordBytes_swapped(r) ==
  VarIntBytes(r.length) \o << r.attributes >>
    \o VarIntBytes(r.timestamp_delta) \o VarIntBytes(r.offset_delta)
    \o OctetsBytes(r.value) \o OctetsBytes(r.key) \o HeadersBytes(r.headers)

\* derive(Serialize) for Record: the fields in declaration order, each with
\* the codec of its serialize_with
RecordBytes(r) ==
  VarIntBytes(r.length) \o << r.attributes >>
    \o VarIntBytes(r.timestamp_delta) \o VarIntBytes(r.offset_delta)
    \o OctetsBytes(r.key) \o OctetsBytes(r.value) \o HeadersBytes(r.headers)

\* (variant: key and value taken from each other's place)
RecordRead_swapped(bytes) ==
  { Taken([ length |-> f.value[1], attributes |-> f.value[2],
            timestamp_delta |-> f.value[3], offset_delta |-> f.value[4],
            key |-> f.value[6], value |-> f.value[5], headers |-> f.value[7] ],
          f.rest) :
    f \in FieldsRead(<< "VarInt", "u8", "VarInt", "VarInt", "Octets", "Octets",
                        "VarIntSequence" >>, bytes) }

\* derive(Deserialize) for Record: the same fields, read in the same order
RecordRead(bytes) ==
  { Taken([ length |-> f.value[1], attributes |-> f.value[2],
            timestamp_delta |-> f.value[3], offset_delta |-> f.value[4],
            key |-> f.value[5], value |-> f.value[6], headers |-> f.value[7] ],
          f.rest) :
    f \in FieldsRead(<< "VarInt", "u8", "VarInt", "VarInt", "Octets", "Octets",
                        "VarIntSequence" >>, bytes) }

\* the records of a batch, one after another
RECURSIVE RecordsRead(_, _)
RecordsRead(bytes, n) ==
  IF n = 0 THEN Read(<< >>, bytes)
  ELSE UNION { { Taken(<< r.value >> \o more.value, more.rest) :
                   more \in RecordsRead(r.rest, n - 1) } :
               r \in RecordRead(bytes) }

\* the bytes of a batch that follow its crc: attributes through the last record
CrcData(b, records) ==
  BE(b.attributes, 2) \o BE(b.last_offset_delta, 4) \o I64Bytes(b.base_timestamp)
    \o I64Bytes(b.max_timestamp) \o I64Bytes(b.producer_id)
    \o BE(b.producer_epoch, 2) \o BE(b.base_sequence, 4) \o SequenceBytes(records)

\* the last_offset_delta of the batch built from b: the greatest
\* offset_delta of its records (the value of the builder when it has none)
LastOffsetDelta(b) ==
  IF b.records = << >> THEN b.last_offset_delta
  ELSE CHOOSE m \in { b.records[i].offset_delta : i \in 1..Len(b.records) } :
         \A i \in 1..Len(b.records) : b.records[i].offset_delta <= m

\* Batch::builder()...build(): every record added is built, in the order of
\* the .record(..) calls; last_offset_delta is that of the records; the crc
\* is taken over the serialized builder from attributes on, and batch_length
\* counts what follows the batch_length field (partition_leader_epoch, magic,
\* crc, and the checksummed bytes)
BatchBuild(b) ==
  LET data == CrcData([ b EXCEPT !.last_offset_delta = LastOffsetDelta(b) ],
                      [ i \in 1..Len(b.records) |-> serialize(b.records[i]) ])
  IN [ base_offset |-> b.base_offset, batch_length |-> 4 + 1 + 4 + Len(data),
       partition_leader_epoch |-> b.partition_leader_epoch, magic |-> b.magic,
       crc |-> Crc32c(data), attributes |-> b.attributes,
       last_offset_delta |-> LastOffsetDelta(b),
       base_timestamp |-> b.base_timestamp, max_timestamp |-> b.max_timestamp,
       producer_id |-> b.producer_id, producer_epoch |-> b.producer_epoch,
       base_sequence |-> b.base_sequence,
       records |-> [ i \in 1..Len(b.records) |-> try_from(b.records[i]) ] ]

\* the encoder on a Batch: the fields in wire order
BatchBytes(b) ==
  I64Bytes(b.base_offset) \o BE(b.batch_length, 4)
    \o BE(b.partition_leader_epoch, 4) \o BE(b.magic, 1) \o b.crc
    \o CrcData(b, [ i \in 1..Len(b.records) |-> RecordBytes(b.records[i]) ])

\* the decoder on a Batch: the fields in wire order, the crc verified
BatchRead(bytes) ==
  UNION { { Taken([ base_offset |-> f.value[1], batch_length |-> f.value[2],
                    partition_leader_epoch |-> f.value[3], magic |-> f.value[4],
                    crc |-> f.value[5], attributes |-> f.value[6],
                    last_offset_delta |-> f.value[7],
                    base_timestamp |-> f.value[8], max_timestamp |-> f.value[9],
                    producer_id |-> f.value[10], producer_epoch |-> f.value[11],
                    base_sequence |-> f.value[12], records |-> rs.value ],
                  rs.rest) :
              rs \in { r \in (IF f.value[13] < 0 THEN Malformed
                             ELSE RecordsRead(f.rest, f.value[13])) :
                       f.value[5] = Crc32c(SubSeq(bytes, 22, Len(bytes) - Len(r.rest))) } } :
          f \in FieldsRead(<< "i64", "i32", "i32", "i8", "u32", "i16", "i32", "i64",
                              "i64", "i64", "i16", "i32", "i32" >>, bytes) }

\* -------------------------------------------------------------------- state
VARIABLES
  main,      \* the serve task: "register", "bind", "accept", or where it failed
  sock,      \* per connection: "none", "open", "gone", "dropped"
  inbuf,     \* per connection: frames written by the peer and not yet read
  sent,      \* frames the peers have sent
  pc,        \* per connection: where the task of stream_handler is
  nread,     \* per connection: requests (frames of positive size) begun
  cur,       \* per connection: the request decoded by process_request
  call,      \* per connection: the call awaited by response_for
  response,  \* per connection: the encoded response held by stream_handler
  sample,    \* per connection: the attributes api_requests.add was given for
             \* the request in hand
  out,       \* per connection: what was written to the socket
  metrics,   \* per connection (peer attribute): samples recorded by Metron
  errors,    \* per connection: the sites that logged at error level
  result,    \* per connection: what stream_handler returned
  broker,    \* the Broker of serve (at 0) and the clone moved into each task
  cut,       \* per connection: the peer went away while the handler of the
             \* request in hand was awaited
  builder,   \* the record codec: the builder in hand (a Record builder or a
             \* Batch builder), None when the codec is not exercised
  record,    \* the record codec: the Record built from the builder
  batch,     \* the record codec: the Batch built from the builder
  encoded,   \* the record codec: the bytes written by the encoder
  decoded,   \* the record codec: what the decoder made of the bytes
  returned   \* the record codec: what Builder::serialize returned to a caller
             \* whose writer may fail, None when it was not called so

vars == << main, sock, inbuf, sent, pc, nread, cur, call, response, sample,
           out, metrics, errors, result, cut, broker,
           builder, record, batch, encoded, decoded, returned >>

codec == << builder, record, batch, encoded, decoded, returned >>

env == << sock, inbuf, sent >>
locals == << cur, call, response, sample >>
obs == << metrics, errors, result >>
InFlight(c) == pc[c] = "handler"

\* Broker::new: the identity of the broker (storage, groups and metron are
\* handles on state outside the dispatcher)
NewBroker ==
  [ node_id |-> "node", cluster_id |-> "cluster", incarnation_id |-> "incarnation",
    listener |-> "listener", advertised_listener |-> "advertised" ]

\* no task, no clone
NoBroker ==
  [ node_id |-> "none", cluster_id |-> "none", incarnation_id |-> "none",
    listener |-> "none", advertised_listener |-> "none" ]

\* no request in hand
NoSample == {}

\* process_request: attributes(..) with cluster_id and peer pushed, as given
\* to api_requests.add by the task of connection c
Sample(c, r) ==
  attributes(r) \cup { << "cluster_id", broker[c].cluster_id >>, << "peer", c >> }

NoMetrics ==
  [ request_size |-> 0, api_requests |-> 0, response_size |-> 0, request_duration |-> 0 ]

\* nothing has run yet
Idle ==
  /\ main = "register"
  /\ sock = [ c \in Conns |-> "none" ]
  /\ inbuf = [ c \in Conns |-> << >> ]
  /\ sent = 0
  /\ pc = [ c \in Conns |-> "none" ]
  /\ nread = [ c \in Conns |-> 0 ]
  /\ cur = [ c \in Conns |-> NoRequest ]
  /\ call = [ c \in Conns |-> NoCall ]
  /\ response = [ c \in Conns |-> NoResponse ]
  /\ sample = [ c \in Conns |-> NoSample ]
  /\ out = [ c \in Conns |-> << >> ]
  /\ metrics = [ c \in Conns |-> NoMetrics ]
  /\ errors = [ c \in Conns |-> {} ]
  /\ result = [ c \in Conns |-> NoError ]
  /\ cut = [ c \in Conns |-> FALSE ]
  /\ broker = [ c \in Conns \cup { 0 } |-> IF c = 0 THEN NewBroker ELSE NoBroker ]

\* the record codec is not exercised
NoCodec ==
  /\ builder = None /\ record = None /\ batch = None
  /\ encoded = None /\ decoded = None /\ returned = None

Init == Idle /\ NoCodec

\* ------------------------------------------------------------ the serve task
\* register(): storage.register_broker succeeds
Register ==
  /\ UNCHANGED << broker, codec >>
  /\ main = "register"
  /\ main' = "bind"
  /\ UNCHANGED << env, pc, nread, locals, out, obs, cut >>

\* register(): storage.register_broker fails and serve returns the error
RegisterError ==
  /\ UNCHANGED << broker, codec >>
  /\ main = "register"
  /\ main' = "register_failed"
  /\ UNCHANGED << env, pc, nread, locals, out, obs, cut >>

\* the listener is bound while register_broker is still awaited
Bind_eager ==
  /\ UNCHANGED << broker, codec >>
  /\ main \in { "register", "bind" }
  /\ main' = "accept"
  /\ UNCHANGED << env, pc, nread, locals, out, obs, cut >>

\* listen(): TcpListener::bind succeeds
Bind ==
  /\ UNCHANGED << broker, codec >>
  /\ main = "bind"
  /\ main' = "accept"
  /\ UNCHANGED << env, pc, nread, locals, out, obs, cut >>

\* listen(): TcpListener::bind fails
BindError ==
  /\ UNCHANGED << broker, codec >>
  /\ main = "bind"
  /\ main' = "bind_failed"
  /\ UNCHANGED << env, pc, nread, locals, out, obs, cut >>

\* the task is given a broker built anew for it
Spawned_renewed(b) == [ b EXCEPT !.incarnation_id = "another" ]

\* `let mut broker = self.clone()`: the broker moved into the spawned task
Spawned(b) == b

\* listen(): accept() returns a stream and a task is spawned for it
Accept(c) ==
  /\ main = "accept"
  /\ sock[c] = "none"
  /\ \A d \in Conns : d < c => sock[d] # "none"
  /\ sock' = [ sock EXCEPT ![c] = "open" ]
  /\ pc' = [ pc EXCEPT ![c] = "read_size" ]
  /\ broker' = [ broker EXCEPT ![c] = Spawned(broker[0]) ]
  /\ UNCHANGED << main, inbuf, sent, nread, locals, out, obs, cut, codec >>

\* (variant: the tasks spawned so far are aborted when listen returns)
AcceptError_aborting ==
  /\ UNCHANGED << broker, codec >>
  /\ main = "accept"
  /\ main' = "accept_failed"
  /\ pc' = [ c \in Conns |-> IF pc[c] = "none" THEN "none" ELSE "done" ]
  /\ UNCHANGED << env, nread, locals, out, obs, cut >>

\* listen(): accept() fails and listen returns the error
AcceptError ==
  /\ UNCHANGED << broker, codec >>
  /\ main = "accept"
  /\ main' = "accept_failed"
  /\ UNCHANGED << env, pc, nread, locals, out, obs, cut >>

\* ------------------------------------------------------------------ the peer
\* the peer writes a frame: a size prefix and `have` bytes of body
Send(c, frames) ==
  /\ UNCHANGED << broker, codec >>
  /\ sock[c] = "open"
  /\ sent < MaxFrames
  /\ IF inbuf[c] = << >> THEN TRUE ELSE Complete(inbuf[c][Len(inbuf[c])])
  /\ \E f \in frames :
       inbuf' = [ inbuf EXCEPT ![c] = Append(@, f) ]
  /\ sent' = sent + 1
  /\ UNCHANGED << main, sock, pc, nread, locals, out, obs, cut >>

\* the peer writes one of the frames the peers of Spec send
PeerSend(c) == Send(c, Frames)

\* the peer writes a frame with any of the size prefixes of PrefixSizes
PeerSendPrefix(c) == Send(c, PrefixFrames)

\* the peer going away aborts the task at the await it is suspended in
PeerGone_cancels(c, how) ==
  /\ UNCHANGED << broker, codec >>
  /\ sock[c] = "open"
  /\ IF InFlight(c)
     THEN /\ pc' = [ pc EXCEPT ![c] = "done" ]
          /\ sock' = [ sock EXCEPT ![c] = "dropped" ]
          /\ inbuf' = [ inbuf EXCEPT ![c] = << >> ]
     ELSE /\ sock' = [ sock EXCEPT ![c] = how ]
          /\ UNCHANGED << pc, inbuf >>
  /\ UNCHANGED << main, sent, nread, locals, out, obs, cut >>

\* the peer going away changes the socket and nothing else: the task is
\* suspended in an await that does not involve the socket, or meets the
\* change at its next socket operation
PeerGone(c, how) ==
  /\ UNCHANGED << broker, codec >>
  /\ sock[c] = "open"
  /\ sock' = [ sock EXCEPT ![c] = how ]
  /\ cut' = [ cut EXCEPT ![c] = InFlight(c) ]
  /\ UNCHANGED << main, inbuf, sent, pc, nread, locals, out, obs >>

\* the peer closes its socket, resets the connection or is lost
PeerClose(c) == PeerGone(c, "gone")

\* --------------------------------------------------------- the connection task
\* stream_handler returns `error` (or panics): the sites that logged, the
\* match of listen(), and the stream and the locals dropped
Finish(c, error, sites) ==
  /\ pc' = [ pc EXCEPT ![c] = "done" ]
  /\ result' = [ result EXCEPT ![c] = error ]
  /\ errors' = [ errors EXCEPT ![c] = @ \cup sites \cup ListenSites(error) ]
  /\ sock' = [ sock EXCEPT ![c] = "dropped" ]
  /\ inbuf' = [ inbuf EXCEPT ![c] = << >> ]
  /\ cur' = [ cur EXCEPT ![c] = NoRequest ]
  /\ sample' = [ sample EXCEPT ![c] = NoSample ]
  /\ call' = [ call EXCEPT ![c] = NoCall ]
  /\ response' = [ response EXCEPT ![c] = NoResponse ]
  /\ cut' = [ cut EXCEPT ![c] = FALSE ]
  /\ main' = ListenAfterTask(main, error)
  /\ UNCHANGED sent

\* the loop reads on while a response is still to be written
CanRead_pipelined(c) == pc[c] \in { "read_size", "write" }

\* the loop awaits the size prefix only after the write of the last response
CanRead(c) == pc[c] = "read_size"

\* a prefix of 0 is taken for a request of no bytes: the buffer is allocated
\* and the body read and the dispatch follow
EmptyRead_dispatched(c) ==
  /\ pc' = [ pc EXCEPT ![c] = "read_body" ]
  /\ nread' = [ nread EXCEPT ![c] = @ + 1 ]
  /\ UNCHANGED << main, env, locals, out, obs, cut >>

\* the prefix is 0: info!("empty read!") and `continue`, the loop awaits the
\* next prefix
EmptyRead(c) ==
  /\ inbuf' = [ inbuf EXCEPT ![c] = Tail(@) ]
  /\ pc' = [ pc EXCEPT ![c] = "read_size" ]
  /\ UNCHANGED << main, sock, sent, nread, locals, out, obs, cut >>

\* vec![0u8; size as usize + size.len()]: the length of the request buffer,
\* None when the expression panics.  A negative size cast to usize is
\* 2^64 + size.  With size + 4 >= 0 the sum passes 2^64: a build with
\* overflow checks panics, one without wraps to size + 4.  With size + 4 < 0
\* the sum is above isize::MAX and vec! panics with a capacity overflow.
Allocated(size, wraps) ==
  IF size >= 0 THEN Some(size + 4)
  ELSE IF size + 4 >= 0 THEN IF wraps THEN Some(size + 4) ELSE None
  ELSE None

\* (variant: the prefix is copied into a buffer of any length)
Prefixed_unchecked(len) == len # None

\* request[0..4].copy_from_slice(&size[..]): the range 0..4 is taken of a
\* buffer of at least 4 bytes, and panics on a shorter one
Prefixed(len) == len # None /\ len[1] >= 4

\* read_exact(&mut size) returns the 4 bytes of the prefix
ReadSize(c) ==
  /\ UNCHANGED << broker, codec >>
  /\ CanRead(c)
  /\ ReadSucceeds(sock[c])
  /\ inbuf[c] # << >>
  /\ LET size == inbuf[c][1].size IN
     IF size = 0
     THEN EmptyRead(c)
     ELSE \E wraps \in BOOLEAN :
       IF ~ Prefixed(Allocated(size, wraps))
       THEN \* the allocation or the copy of the prefix panics
            /\ Finish(c, OtherError("Panic"), {})
            /\ UNCHANGED << nread, out, metrics >>
       ELSE /\ pc' = [ pc EXCEPT ![c] = "read_body" ]
            /\ nread' = [ nread EXCEPT ![c] = @ + 1 ]
            /\ UNCHANGED << main, env, locals, out, obs, cut >>

\* read_exact(&mut size) fails
ReadSizeError(c) ==
  /\ UNCHANGED << broker, codec >>
  /\ CanRead(c)
  /\ inbuf[c] = << >> \/ sock[c] = "gone"
  /\ \E kind \in ReadErrors(sock[c]) :
       Finish(c, IoError(kind), ReadSizeSites(kind))
  /\ UNCHANGED << nread, out, metrics >>

\* (variant: the body is read and request_size is not recorded)
ReadBody_unmeasured(c) ==
  /\ UNCHANGED << broker, codec >>
  /\ pc[c] = "read_body"
  /\ ReadSucceeds(sock[c])
  /\ Complete(inbuf[c][1])
  /\ inbuf' = [ inbuf EXCEPT ![c] = Tail(@) ]
  /\ pc' = [ pc EXCEPT ![c] = "process" ]
  /\ UNCHANGED << main, sock, sent, nread, locals, out, obs, cut >>

\* read_exact(&mut request[4..]) returns the body; request_size is recorded
ReadBody(c) ==
  /\ UNCHANGED << broker, codec >>
  /\ pc[c] = "read_body"
  /\ ReadSucceeds(sock[c])
  /\ Complete(inbuf[c][1])
  /\ inbuf' = [ inbuf EXCEPT ![c] = Tail(@) ]
  /\ metrics' = [ metrics EXCEPT ![c].request_size = @ + 1 ]
  /\ pc' = [ pc EXCEPT ![c] = "process" ]
  /\ UNCHANGED << main, sock, sent, nread, locals, out, errors, result, cut >>

\* read_exact(&mut request[4..]) fails
ReadBodyError(c) ==
  /\ UNCHANGED << broker, codec >>
  /\ pc[c] = "read_body"
  /\ ~Complete(inbuf[c][1]) \/ sock[c] = "gone"
  /\ \E kind \in ReadErrors(sock[c]) :
       Finish(c, IoError(kind), { "read_body" })
  /\ UNCHANGED << nread, out, metrics >>

\* the frame does not decode: the error is logged and the loop goes on with
\* the next frame
DecodeError_swallowed(c) ==
  /\ UNCHANGED << broker, codec >>
  /\ pc[c] = "process"
  /\ pc' = [ pc EXCEPT ![c] = "read_size" ]
  /\ errors' = [ errors EXCEPT ![c] = @ \cup { "process_request" } ]
  /\ UNCHANGED << main, env, nread, locals, out, metrics, result, cut >>

\* the frame does not decode: Frame::request_from_bytes(input)? returns the
\* error, stream_handler logs it and returns it
DecodeError(c) ==
  /\ UNCHANGED << broker, codec >>
  /\ pc[c] = "process"
  /\ Finish(c, OtherError("Decode"), { "process_request" })
  /\ UNCHANGED << nread, out, metrics >>

\* the Produce arm answers without awaiting its call
Awaited_detached(api) == api \notin StaticApis \cup { "Produce" }

\* the arms of response_for that await a call before they return
Awaited(api) == api \notin StaticApis

\* what a helper module returns when its storage call returned `r`
HelperResult(api, r) == "body"

\* what an arm of response_for returns when the call it awaited returned `r`
ArmResult(api, r) ==
  IF api \in DirectStorageApis \cup CoordinatorApis
  THEN IF r = "err" THEN "Err" ELSE "body"
  ELSE IF api \in HelperApis THEN HelperResult(api, r)
  ELSE "body"

\* no response is encoded for a Produce with acks = 0: the loop starts over
Respond_suppressed(c, r, status, m) ==
  IF r.api_key = "Produce" /\ r.arg = << 0 >>
  THEN /\ pc' = [ pc EXCEPT ![c] = "read_size" ]
       /\ cur' = [ cur EXCEPT ![c] = NoRequest ]
       /\ sample' = [ sample EXCEPT ![c] = NoSample ]
       /\ call' = [ call EXCEPT ![c] = NoCall ]
       /\ metrics' = m
       /\ UNCHANGED response
  ELSE /\ cur' = [ cur EXCEPT ![c] = r ]
       /\ sample' = [ sample EXCEPT ![c] = Sample(c, r) ]
       /\ call' = [ call EXCEPT ![c] = status ]
       /\ response' = [ response EXCEPT ![c] =
             process_request(r, ResponseBody(r.api_key, status)) ]
       /\ metrics' = [ m EXCEPT ![c].response_size = @ + 1,
                                ![c].request_duration = @ + 1 ]
       /\ pc' = [ pc EXCEPT ![c] = "write" ]

\* response_for returned a body for request `r`, its call (if any) having
\* ended with `status`: Frame::response encodes it, response_size and
\* request_duration are added to the samples `m`, and write_all is awaited
Respond(c, r, status, m) ==
  /\ cur' = [ cur EXCEPT ![c] = r ]
  /\ sample' = [ sample EXCEPT ![c] = Sample(c, r) ]
  /\ call' = [ call EXCEPT ![c] = status ]
  /\ response' = [ response EXCEPT ![c] =
        process_request(r, ResponseBody(r.api_key, status)) ]
  /\ metrics' = [ m EXCEPT ![c].response_size = @ + 1,
                           ![c].request_duration = @ + 1 ]
  /\ pc' = [ pc EXCEPT ![c] = "write" ]

\* (variant: a level that is no IsolationLevel is taken for ReadUncommitted)
isolation_level_lenient(arg) ==
  IF arg = None \/ arg[1] \notin ValidIsolation THEN Some("ReadUncommitted")
  ELSE Some(IF arg[1] = 0 THEN "ReadUncommitted" ELSE "ReadCommitted")

\* the ListOffsets arm: isolation_level.map_or(Ok(ReadUncommitted),
\* IsolationLevel::try_from), None for the Err that `?` returns
isolation_level(arg) ==
  IF arg = None THEN Some("ReadUncommitted")
  ELSE IF arg[1] \notin ValidIsolation THEN None
  ELSE Some(IF arg[1] = 0 THEN "ReadUncommitted" ELSE "ReadCommitted")

\* (variant: the catch-all arm answers with a body of its own)
Dispatch_answering(c, requests) ==
  /\ UNCHANGED << broker, codec >>
  /\ pc[c] = "process"
  /\ \E r \in requests :
       LET counted == [ metrics EXCEPT ![c].api_requests = @ + 1 ] IN
       IF Delegate(r.api_key) = "none"
       THEN /\ Respond(c, r, NoCall, counted)
            /\ UNCHANGED << main, env, errors, result, cut >>
       ELSE IF r.api_key = "ListOffsets" /\ isolation_level(r.arg) = None
       THEN \* IsolationLevel::try_from(isolation_level)?
            /\ Finish(c, OtherError("TryFrom"), { "response_for", "process_request" })
            /\ metrics' = counted
       ELSE IF Awaited(r.api_key)
       THEN /\ cur' = [ cur EXCEPT ![c] = r ]
            /\ sample' = [ sample EXCEPT ![c] = Sample(c, r) ]
            /\ call' = [ call EXCEPT ![c] = "pending" ]
            /\ pc' = [ pc EXCEPT ![c] = "handler" ]
            /\ metrics' = counted
            /\ UNCHANGED << main, env, response, errors, result, cut >>
       ELSE /\ Respond(c, r, IF Delegate(r.api_key) = "self" THEN NoCall ELSE "pending",
                       counted)
            /\ UNCHANGED << main, env, errors, result, cut >>
  /\ UNCHANGED << nread, out >>

\* process_request: the frame decodes to `r`, api_requests is incremented and
\* response_for runs up to the call it awaits, or to the write of the
\* response when the arm awaits nothing
Dispatch(c, requests) ==
  /\ UNCHANGED << broker, codec >>
  /\ pc[c] = "process"
  /\ \E r \in requests :
       LET counted == [ metrics EXCEPT ![c].api_requests = @ + 1 ] IN
       IF Delegate(r.api_key) = "none"
       THEN \* the catch-all arm: error!(?request); unimplemented!()
            /\ Finish(c, OtherError("Panic"), { "unimplemented" })
            /\ metrics' = counted
       ELSE IF r.api_key = "ListOffsets" /\ isolation_level(r.arg) = None
       THEN \* IsolationLevel::try_from(isolation_level)?
            /\ Finish(c, OtherError("TryFrom"), { "response_for", "process_request" })
            /\ metrics' = counted
       ELSE IF Awaited(r.api_key)
       THEN /\ cur' = [ cur EXCEPT ![c] = r ]
            /\ sample' = [ sample EXCEPT ![c] = Sample(c, r) ]
            /\ call' = [ call EXCEPT ![c] = "pending" ]
            /\ pc' = [ pc EXCEPT ![c] = "handler" ]
            /\ metrics' = counted
            /\ UNCHANGED << main, env, response, errors, result, cut >>
       ELSE /\ Respond(c, r, IF Delegate(r.api_key) = "self" THEN NoCall ELSE "pending",
                       counted)
            /\ UNCHANGED << main, env, errors, result, cut >>
  /\ UNCHANGED << nread, out >>

\* process_request on a frame of one of the requests the peers of Spec send
ProcessRequest(c) == Dispatch(c, Requests)

\* process_request on a frame of any request: every arm of response_for
ProcessAnyRequest(c) == Dispatch(c, AllRequests)

\* the storage or coordinator call awaited by response_for returns and the
\* arm returns a body
HandlerReturn(c) ==
  /\ UNCHANGED << broker, codec >>
  /\ pc[c] = "handler"
  /\ \E r \in { "ok", "err" } :
       /\ ArmResult(cur[c].api_key, r) = "body"
       /\ Respond(c, cur[c], r, metrics)
  /\ UNCHANGED << main, env, nread, out, errors, result, cut >>

\* the storage or coordinator call awaited by response_for returns an error
\* and the arm returns it: logged in process_request and in stream_handler
HandlerError(c) ==
  /\ UNCHANGED << broker, codec >>
  /\ pc[c] = "handler"
  /\ ArmResult(cur[c].api_key, "err") = "Err"
  /\ Finish(c, OtherError(IF Delegate(cur[c].api_key) = "storage"
                          THEN "Storage" ELSE "Coordinator"),
            { "response_for", "process_request" })
  /\ UNCHANGED << nread, out, metrics >>

\* Frame::response fails on the body an arm returned, after the call the arm
\* awaited or straight after the decode for an arm that awaits nothing:
\* logged in process_request and in stream_handler
EncodeError(c) ==
  /\ UNCHANGED << broker, codec >>
  /\ \/ /\ pc[c] = "handler"
        /\ \E r \in { "ok", "err" } : ArmResult(cur[c].api_key, r) = "body"
        /\ UNCHANGED metrics
     \/ /\ pc[c] = "process"
        /\ \E r \in Requests : Delegate(r.api_key) = "self"
        /\ metrics' = [ metrics EXCEPT ![c].api_requests = @ + 1 ]
  /\ Finish(c, OtherError("Encode"), { "frame_response", "process_request" })
  /\ UNCHANGED << nread, out >>

\* what the socket is given of response[c]: the index of the request it
\* answers and the correlation id in its header
Written(c) ==
  [ idx |-> nread[c], correlation_id |-> response[c].correlation_id ]

\* (variant: response_size and request_duration are recorded once more
\* after write_all has returned)
Write_measured(c) ==
  /\ UNCHANGED << broker, codec >>
  /\ pc[c] = "write"
  /\ WriteSucceeds(sock[c])
  /\ out' = [ out EXCEPT ![c] = Append(@, Written(c)) ]
  /\ pc' = [ pc EXCEPT ![c] = "read_size" ]
  /\ cur' = [ cur EXCEPT ![c] = NoRequest ]
  /\ sample' = [ sample EXCEPT ![c] = NoSample ]
  /\ call' = [ call EXCEPT ![c] = NoCall ]
  /\ response' = [ response EXCEPT ![c] = NoResponse ]
  /\ cut' = [ cut EXCEPT ![c] = FALSE ]
  /\ metrics' = [ metrics EXCEPT ![c].response_size = @ + 1,
                                ![c].request_duration = @ + 1 ]
  /\ UNCHANGED << main, env, nread, errors, result >>

\* write_all(&response) returns: the loop starts over
Write(c) ==
  /\ UNCHANGED << broker, codec >>
  /\ pc[c] = "write"
  /\ WriteSucceeds(sock[c])
  /\ out' = [ out EXCEPT ![c] = Append(@, Written(c)) ]
  /\ pc' = [ pc EXCEPT ![c] = "read_size" ]
  /\ cur' = [ cur EXCEPT ![c] = NoRequest ]
  /\ sample' = [ sample EXCEPT ![c] = NoSample ]
  /\ call' = [ call EXCEPT ![c] = NoCall ]
  /\ response' = [ response EXCEPT ![c] = NoResponse ]
  /\ cut' = [ cut EXCEPT ![c] = FALSE ]
  /\ UNCHANGED << main, env, nread, obs >>

\* write_all(&response) fails
WriteError(c) ==
  /\ UNCHANGED << broker, codec >>
  /\ pc[c] = "write"
  /\ \E kind \in WriteErrors(sock[c]) :
       Finish(c, IoError(kind), { "write_all" })
  /\ UNCHANGED << nread, out, metrics >>

Next ==
  \/ Register \/ RegisterError \/ Bind \/ BindError \/ AcceptError
  \/ \E c \in Conns :
       \/ Accept(c)
       \/ PeerSend(c) \/ PeerClose(c)
       \/ ReadSize(c) \/ ReadSizeError(c) \/ ReadBody(c) \/ ReadBodyError(c)
       \/ DecodeError(c) \/ ProcessRequest(c) \/ HandlerReturn(c)
       \/ HandlerError(c) \/ EncodeError(c) \/ Write(c) \/ WriteError(c)

Spec == Init /\ [][Next]_vars

\* One connection whose peer sends requests for every arm of response_for
NextApis ==
  \/ Register \/ Bind
  \/ \E c \in { 1 } :
       \/ Accept(c)
       \/ PeerSend(c) \/ PeerClose(c)
       \/ ReadSize(c) \/ ReadSizeError(c) \/ ReadBody(c) \/ ReadBodyError(c)
       \/ DecodeError(c) \/ ProcessAnyRequest(c) \/ HandlerReturn(c)
       \/ HandlerError(c) \/ EncodeError(c) \/ Write(c) \/ WriteError(c)

SpecApis == Init /\ [][NextApis]_vars

\* One connection whose peer sends frames with the prefixes of PrefixSizes
NextPrefix ==
  \/ Register \/ Bind
  \/ \E c \in { 1 } :
       \/ Accept(c)
       \/ PeerSendPrefix(c) \/ PeerClose(c)
       \/ ReadSize(c) \/ ReadSizeError(c) \/ ReadBody(c) \/ ReadBodyError(c)
       \/ DecodeError(c) \/ ProcessRequest(c) \/ HandlerReturn(c)
       \/ HandlerError(c) \/ EncodeError(c) \/ Write(c) \/ WriteError(c)

SpecPrefix == Init /\ [][NextPrefix]_vars

\* The records frames, partition_data and topic_data of the Produce bodies
\* whose `records` attribute is computed
FrameChoices == { None, Some(<< >>), Some(<< 1 >>), Some(<< 2, 3 >>) }

PartitionDataChoices ==
  { None, Some(<< >>) } \cup { Some(<< f >>) : f \in FrameChoices }
    \cup { Some(<< f, g >>) : f, g \in FrameChoices }

TopicDataChoices ==
  { None, Some(<< >>) } \cup { Some(<< p >>) : p \in PartitionDataChoices }
    \cup { Some(<< p, q >>) : p, q \in PartitionDataChoices }

ProduceRequests ==
  [ api_key : { "Produce" }, api_version : Versions, correlation_id : { 1 },
    arg : { << acks, topic_data >> : acks \in { 0, 1 }, topic_data \in TopicDataChoices } ]

\* process_request on the frame of a Produce request with a topic_data
ProcessProduce(c) == Dispatch(c, ProduceRequests)

\* the task of connection 1 has read a whole frame and calls process_request
InitProduce ==
  /\ main = "accept"
  /\ sock = [ c \in Conns |-> IF c = 1 THEN "open" ELSE "none" ]
  /\ inbuf = [ c \in Conns |-> << >> ]
  /\ sent = 1
  /\ pc = [ c \in Conns |-> IF c = 1 THEN "process" ELSE "none" ]
  /\ nread = [ c \in Conns |-> IF c = 1 THEN 1 ELSE 0 ]
  /\ cur = [ c \in Conns |-> NoRequest ]
  /\ call = [ c \in Conns |-> NoCall ]
  /\ response = [ c \in Conns |-> NoResponse ]
  /\ sample = [ c \in Conns |-> NoSample ]
  /\ out = [ c \in Conns |-> << >> ]
  /\ metrics = [ c \in Conns |->
                  IF c = 1 THEN [ NoMetrics EXCEPT !.request_size = 1 ] ELSE NoMetrics ]
  /\ errors = [ c \in Conns |-> {} ]
  /\ result = [ c \in Conns |-> NoError ]
  /\ cut = [ c \in Conns |-> FALSE ]
  /\ broker = [ c \in Conns \cup { 0 } |-> IF c \in { 0, 1 } THEN NewBroker ELSE NoBroker ]
  /\ NoCodec

\* One Produce request through process_request, response_for and the write
NextProduce ==
  \E c \in { 1 } :
    \/ ProcessProduce(c) \/ HandlerReturn(c) \/ EncodeError(c) \/ Write(c)

SpecProduce == InitProduce /\ [][NextProduce]_vars

\* ------------------------------------------------------------ the record codec
\* (run on its own: a builder is chosen, built, serialized, and read back)
MaxRecords == 2      \* records added to one batch builder

\* 64 bytes: the shortest value whose length takes two varint groups
Filler == [ i \in 1..64 |-> 0 ]

\* header::Builder values
HeaderChoices == { << >>, << [ key |-> << 104 >>, value |-> Some(<< 1 >>) ] >> }

\* what Builder::offset_delta is given: the ends of the i32 range, and the
\* numbers around which the varint takes one more group
OffsetDeltas ==
  { 0, 1, -1, 3, 9, 63, 64, -64, -65, 8191, 8192, -8193, 1048575, 1048576,
    134217727, 134217728, -134217729, MaxI32, MinI32 }

\* Record::builder() with its setters applied
RecordBuilders ==
  [ attributes : { 0, 1 }, timestamp_delta : { 0, -1, 64 }, offset_delta : OffsetDeltas,
    key : { None, Some(<< >>), Some(<< 107 >>) },
    value : { None, Some(<< >>), Some(<< 100, 101, 102 >>), Some(Filler) },
    headers : HeaderChoices ]

\* Record::builder().value(vec![100, 101, 102].into())
ReferenceRecord ==
  [ attributes |-> 0, timestamp_delta |-> 0, offset_delta |-> 0, key |-> None,
    value |-> Some(<< 100, 101, 102 >>), headers |-> << >> ]

\* the batch builder of the tests, before .record(..): base_timestamp and
\* max_timestamp are 1_707_058_170_165
ReferenceBatch ==
  [ base_offset |-> I64(0), partition_leader_epoch |-> -1, magic |-> 2,
    attributes |-> 0, last_offset_delta |-> 0,
    base_timestamp |-> << 101748, 9996597 >>, max_timestamp |-> << 101748, 9996597 >>,
    producer_id |-> I64(1), producer_epoch |-> 0, base_sequence |-> 1,
    records |-> << >> ]

\* Batch::builder() with its setters applied, before .record(..)
BatchHeads ==
  { ReferenceBatch,
    [ base_offset |-> I64(5), partition_leader_epoch |-> 0, magic |-> 2,
      attributes |-> 16, last_offset_delta |-> 1,
      base_timestamp |-> I64(0), max_timestamp |-> I64(1),
      producer_id |-> I64(-1), producer_epoch |-> -1, base_sequence |-> -1,
      records |-> << >> ] }

\* the record builders given to .record(..)
BatchRecordBuilders ==
  { [ ReferenceRecord EXCEPT !.offset_delta = d, !.key = k, !.value = v ] :
      d \in { 0, 1 },
      k \in { None, Some(<< 107 >>) }, v \in { None, Some(<< 100, 101, 102 >>) } }

BatchBuilders ==
  { [ h EXCEPT !.records = rs ] :
      h \in BatchHeads,
      rs \in UNION { [ 1..n -> BatchRecordBuilders ] : n \in 0..MaxRecords } }

\* Builder::build: Record::try_from(builder)
RecordBuild ==
  /\ builder # None /\ record = None
  /\ record' = Some(try_from(builder[1]))
  /\ UNCHANGED << builder, batch, encoded, decoded, returned >>
  /\ UNCHANGED << main, env, pc, nread, locals, out, obs, cut, broker >>

\* builder.serialize(&mut encoder)
BuilderSerialize ==
  /\ builder # None /\ encoded = None
  /\ encoded' = Some(serialize(builder[1]))
  /\ UNCHANGED << builder, record, batch, decoded, returned >>
  /\ UNCHANGED << main, env, pc, nread, locals, out, obs, cut, broker >>

\* Record::deserialize(&mut decoder) on the serialized builder
RecordDeserialize ==
  /\ encoded # None /\ decoded = None
  /\ decoded' = Some(RecordRead(encoded[1]))
  /\ UNCHANGED << builder, record, batch, encoded, returned >>
  /\ UNCHANGED << main, env, pc, nread, locals, out, obs, cut, broker >>

InitRecord ==
  /\ Idle
  /\ builder \in { Some(b) : b \in RecordBuilders }
  /\ record = None /\ batch = None /\ encoded = None /\ decoded = None
  /\ returned = None

NextRecord == RecordBuild \/ BuilderSerialize \/ RecordDeserialize

SpecRecord == InitRecord /\ [][NextRecord]_vars

\* records as a decoder or a caller may hold them: the fields of a builder
\* with a length that is the encoded size of the fields, or is not
BuiltRecords ==
  { [ try_from(b) EXCEPT !.length = l ] :
      b \in RecordBuilders, l \in { -1, 0, 9 } } \cup { try_from(b) : b \in RecordBuilders }

\* Builder::from(record)
BuilderFrom ==
  /\ record # None /\ builder = None
  /\ builder' = Some(from(record[1]))
  /\ UNCHANGED << record, batch, encoded, decoded, returned >>
  /\ UNCHANGED << main, env, pc, nread, locals, out, obs, cut, broker >>

InitConvert ==
  /\ Idle
  /\ \/ builder \in { Some(b) : b \in RecordBuilders } /\ record = None
     \/ builder = None /\ record \in { Some(r) : r \in BuiltRecords }
  /\ batch = None /\ encoded = None /\ decoded = None /\ returned = None

NextConvert == RecordBuild \/ BuilderFrom

SpecConvert == InitConvert /\ [][NextConvert]_vars

\* the calls of the serializer that fail
Failing == SUBSET (1..8)

\* builder.serialize(serializer) on a serializer that may fail
SerializeInto ==
  /\ builder # None /\ returned = None
  /\ \E failing \in Failing :
       LET r == serialize_into(builder[1], failing) IN
       /\ encoded' = Some(r.bytes)
       /\ returned' = Some(r.result)
  /\ UNCHANGED << builder, record, batch, decoded >>
  /\ UNCHANGED << main, env, pc, nread, locals, out, obs, cut, broker >>

InitSerialize ==
  /\ Idle
  /\ builder \in { Some(b) : b \in BatchRecordBuilders }
  /\ record = None /\ batch = None /\ encoded = None /\ decoded = None
  /\ returned = None

SpecSerialize == InitSerialize /\ [][SerializeInto]_vars

\* Batch::builder()...build()
BatchBuilt ==
  /\ builder # None /\ batch = None
  /\ batch' = Some(BatchBuild(builder[1]))
  /\ UNCHANGED << builder, record, encoded, decoded, returned >>
  /\ UNCHANGED << main, env, pc, nread, locals, out, obs, cut, broker >>

\* the built batch through the encoder
BatchEncode ==
  /\ batch # None /\ encoded = None
  /\ encoded' = Some(BatchBytes(batch[1]))
  /\ UNCHANGED << builder, record, batch, decoded, returned >>
  /\ UNCHANGED << main, env, pc, nread, locals, out, obs, cut, broker >>

\* Batch::deserialize(&mut decoder) on the encoded batch
BatchDecode ==
  /\ encoded # None /\ decoded = None
  /\ decoded' = Some(BatchRead(encoded[1]))
  /\ UNCHANGED << builder, record, batch, encoded, returned >>
  /\ UNCHANGED << main, env, pc, nread, locals, out, obs, cut, broker >>

InitBatch ==
  /\ Idle
  /\ builder \in { Some(b) : b \in BatchBuilders }
  /\ record = None /\ batch = None /\ encoded = None /\ decoded = None
  /\ returned = None

NextBatch == BatchBuilt \/ BatchEncode \/ BatchDecode

SpecBatch == InitBatch /\ [][NextBatch]_vars

TypeOK ==
  /\ main \in { "register", "bind", "accept", "register_failed", "bind_failed",
               "accept_failed", "task_failed" }
  /\ \A c \in Conns :
       /\ sock[c] \in { "none", "open", "gone", "dropped" }
       /\ pc[c] \in { "none", "read_size", "read_body", "process", "handler",
                      "write", "done" }
       /\ call[c] \in { NoCall, "pending", "ok", "err" }
       /\ cur[c] \in AllRequests \cup ProduceRequests \cup { NoRequest }
       /\ Len(inbuf[c]) <= MaxFrames
  /\ sent \in 0..MaxFrames

\* ------------------------------------------------------------------ claims
\* the requests decoded so far on connection c (api_requests counts them)
Decoded(c) == metrics[c].api_requests

\* C1: on one connection the loop never pipelines. A request is read only
\* when every earlier request has its response written, at most one request
\* is in hand, and the k-th response written answers the k-th request read.
C1_NoPipelining ==
  \A c \in Conns :
    /\ nread[c] - Len(out[c]) \in { 0, 1 }
    /\ pc[c] \in { "none", "read_size" } => nread[c] = Len(out[c])
    /\ pc[c] \in { "read_body", "process", "handler", "write" }
         => nread[c] = Len(out[c]) + 1
    /\ \A i \in 1..Len(out[c]) : out[c][i].idx = i

\* the second request of a connection is in hand after the first was answered
C1_Witness ==
  \E c \in Conns : Len(out[c]) = 1 /\ nread[c] = 2 /\ pc[c] = "write"

\* C2: the response held for writing carries the correlation id of the request
\* it answers and is encoded with that request's api_key and api_version.
C2_ResponseEchoesRequest ==
  \A c \in Conns :
    pc[c] = "write" =>
      /\ response[c].correlation_id = cur[c].correlation_id
      /\ response[c].api_key = cur[c].api_key
      /\ response[c].api_version = cur[c].api_version
      /\ response[c].body.api = cur[c].api_key

\* a second response whose correlation id and version differ from the first's
C2_Witness ==
  \E c \in Conns :
    /\ Len(out[c]) = 1 /\ pc[c] = "write"
    /\ out[c][1].correlation_id = 1
    /\ response[c].correlation_id = 2 /\ response[c].api_version = 1

\* C3: a fully read frame that does not decode gets no response and no
\* handler, and ends the connection: the task is done with the decode error,
\* the socket is dropped, every request decoded before it was answered and
\* the frame itself is the last one read.
C3_DecodeFailureDrops ==
  \A c \in Conns :
    ( metrics[c].request_size > Decoded(c) /\ pc[c] # "process" ) =>
      /\ pc[c] = "done" /\ result[c] = OtherError("Decode")
      /\ sock[c] = "dropped" /\ inbuf[c] = << >>
      /\ call[c] = NoCall /\ response[c] = NoResponse
      /\ Len(out[c]) = Decoded(c)
      /\ nread[c] = Len(out[c]) + 1

\* the second frame of a connection fails to decode after the first was answered
C3_Witness ==
  \E c \in Conns :
    result[c].err = "Decode" /\ nread[c] = 2 /\ Len(out[c]) = 1

\* C4: an error returned by the storage or coordinator call of a request never
\* becomes an outer failure that ends the connection.
C4_StorageErrorBecomesBody ==
  \A c \in Conns : result[c].err \notin { "Storage", "Coordinator" }

\* C5: every decoded request whose handler returned a body, a Produce with
\* acks = 0 included, is answered exactly once: between requests every decoded
\* request has its response written; a connection ends with its last decoded
\* request unanswered only when the handler returned an error, the encoder
\* failed or the write failed; and no two responses answer the same request.
C5_ExactlyOneResponse ==
  \A c \in Conns :
    /\ pc[c] \in { "none", "read_size", "read_body", "process" }
         => Len(out[c]) = Decoded(c)
    /\ pc[c] \in { "handler", "write" } => Len(out[c]) = Decoded(c) - 1
    /\ pc[c] = "done" =>
         \/ Len(out[c]) = Decoded(c)
         \/ /\ Len(out[c]) = Decoded(c) - 1
            /\ \/ result[c].err \in { "Storage", "Coordinator", "TryFrom", "Encode" }
               \/ result[c].err = "Panic" /\ "unimplemented" \in errors[c]
               \/ result[c].err = "Io" /\ "write_all" \in errors[c]
    /\ \A i, j \in 1..Len(out[c]) : out[c][i].idx = out[c][j].idx => i = j

\* the response of a Produce with acks = 0 is held for writing
C5_Witness ==
  \E c \in Conns :
    /\ pc[c] = "write" /\ cur[c].api_key = "Produce" /\ cur[c].arg = << 0 >>
    /\ response[c].body.api = "Produce"

\* C6: a step that writes the response of a Produce with acks # 0 is taken
\* only after the call awaited for that request has returned.
C6_ProduceAfterStorage ==
  [][ \A c \in Conns :
        ( Len(out'[c]) > Len(out[c]) /\ cur[c].api_key = "Produce"
          /\ cur[c].arg # << 0 >> )
        => call[c] \in { "ok", "err" } ]_vars

\* the response of a Produce with acks = 1 is held after its call returned
C6_Witness ==
  \E c \in Conns :
    /\ pc[c] = "write" /\ cur[c].api_key = "Produce" /\ cur[c].arg = << 1 >>
    /\ call[c] = "ok"

\* C7 as stated: once the peer has closed while the handler of a request was
\* in flight, no response is emitted for that request.
C7_AbortedOnPeerClose ==
  [][ \A c \in Conns : cut[c] => out'[c] = out[c] ]_vars

\* C7 amended: a handler in flight is left only by the return of the call it
\* awaits, to the write of the response or with the error of the handler or
\* of the encoder; and a response held after the peer closed during the
\* handler is given to write_all, which writes it or fails.
C7_HandlerRunsToCompletion ==
  [][ \A c \in Conns :
        /\ pc[c] = "handler" =>
             \/ pc'[c] = "handler" /\ call'[c] = "pending" /\ cur'[c] = cur[c]
             \/ /\ pc'[c] = "write" /\ call'[c] \in { "ok", "err" }
                /\ response'[c].correlation_id = cur[c].correlation_id
             \/ /\ pc'[c] = "done"
                /\ result'[c].err \in { "Storage", "Coordinator", "Encode" }
        /\ ( cut[c] /\ pc[c] = "write" ) =>
             \/ pc'[c] = "write" /\ response'[c] = response[c]
             \/ pc'[c] = "read_size" /\ Len(out'[c]) = Len(out[c]) + 1
             \/ pc'[c] = "done" /\ result'[c].err = "Io" ]_vars

\* the peer closed during the handler, the call returned and the response is held
C7_Witness ==
  \E c \in Conns :
    cut[c] /\ pc[c] = "write" /\ call[c] = "ok" /\ sock[c] = "gone"

\* C8: the step in which a connection's task ends with an error changes
\* neither the accept loop nor anything of any other connection.
C8_ErrorStaysInTask ==
  [][ \A c \in Conns :
        ( pc[c] # "done" /\ pc'[c] = "done" ) =>
          /\ main' = main
          /\ \A d \in Conns \ { c } :
               /\ pc'[d] = pc[d] /\ sock'[d] = sock[d] /\ inbuf'[d] = inbuf[d]
               /\ cur'[d] = cur[d] /\ call'[d] = call[d]
               /\ response'[d] = response[d] /\ out'[d] = out[d]
               /\ result'[d] = result[d] /\ errors'[d] = errors[d] ]_vars

\* a task has ended with an error, the loop accepts and another task answered
C8_Witness ==
  \E c, d \in Conns :
    /\ c # d /\ main = "accept"
    /\ pc[c] = "done" /\ result[c].err \in { "Io", "Decode", "Storage" }
    /\ Len(out[d]) = 1 /\ pc[d] = "read_size"

\* C9: a task that ended on UnexpectedEof, BrokenPipe or ConnectionReset at
\* the read of a size prefix or at the write of a response logged nothing at
\* error level.
C9_TransientIoSilent ==
  \A c \in Conns :
    ( /\ pc[c] = "done" /\ result[c].err = "Io"
      /\ result[c].kind \in SilentKinds
      /\ nread[c] = metrics[c].request_size )
    => errors[c] = {}

\* C10: a task whose peer closed between the size prefix and the end of the
\* body ended without a response to that request and without an error log.
C10_MidRequestCloseSilent ==
  \A c \in Conns :
    ( /\ pc[c] = "done" /\ result[c] = IoError("UnexpectedEof")
      /\ nread[c] > metrics[c].request_size )
    => /\ errors[c] = {}
       /\ Len(out[c]) = nread[c] - 1

\* C11: a step of the task whose read of the size prefix returns 0 consumes
\* that frame and leaves the task awaiting the next size prefix, with no
\* request counted, no handler call, no response held or written, no sample
\* recorded, nothing logged at error level and the socket as it was.
C11_EmptyFrameSkipped ==
  [][ \A c \in Conns :
        ( /\ pc[c] = "read_size" /\ inbuf[c] # << >>
          /\ inbuf[c][1].size = 0
          /\ ( inbuf'[c] # inbuf[c] /\ sent' = sent ) \/ pc'[c] # pc[c]
          /\ result'[c].err # "Io" )
        => /\ pc'[c] = "read_size" /\ sock'[c] = sock[c]
           /\ inbuf'[c] = Tail(inbuf[c])
           /\ nread'[c] = nread[c] /\ out'[c] = out[c]
           /\ metrics'[c] = metrics[c] /\ errors'[c] = errors[c]
           /\ cur'[c] = NoRequest /\ call'[c] = NoCall
           /\ response'[c] = NoResponse /\ result'[c] = NoError ]_vars

\* an empty frame was skipped and the frame after it was read as a request:
\* both frames sent went to one connection, one request was counted and its
\* response is held
C11_Witness ==
  \E c \in Conns :
    /\ sent = 2 /\ \A d \in Conns \ { c } : sock[d] = "none"
    /\ inbuf[c] = << >> /\ nread[c] = 1 /\ pc[c] = "write"
    /\ metrics[c].request_size = 1

\* C12 as stated: each of the ten group requests is served by a call on the
\* coordinator handle, none by a call on the storage handle.
C12_GroupApisOnCoordinator ==
  \A c \in Conns :
    ( InFlight(c) /\ cur[c].api_key \in
        { "JoinGroup", "SyncGroup", "Heartbeat", "LeaveGroup", "OffsetCommit",
          "OffsetFetch", "ListGroups", "DescribeGroups", "DeleteGroups",
          "ConsumerGroupDescribe" } )
    => Delegate(cur[c].api_key) = "coordinator"

\* C12 amended: JoinGroup, SyncGroup, Heartbeat, LeaveGroup, OffsetCommit and
\* OffsetFetch await a call on the coordinator handle; ListGroups,
\* DescribeGroups, DeleteGroups and ConsumerGroupDescribe await a call on the
\* storage handle.
C12_GroupApisSplit ==
  \A c \in Conns :
    InFlight(c) =>
      /\ cur[c].api_key \in { "JoinGroup", "SyncGroup", "Heartbeat", "LeaveGroup",
                               "OffsetCommit", "OffsetFetch" }
           => Delegate(cur[c].api_key) = "coordinator"
      /\ cur[c].api_key \in { "ListGroups", "DescribeGroups", "DeleteGroups",
                               "ConsumerGroupDescribe" }
           => Delegate(cur[c].api_key) = "storage"

\* a ConsumerGroupDescribe is in flight after an earlier request was answered
C12_Witness ==
  \E c \in Conns :
    /\ InFlight(c) /\ cur[c].api_key = "ConsumerGroupDescribe"
    /\ call[c] = "pending" /\ Len(out[c]) = 1

\* C13: serve binds the listener only after register_broker succeeded, and
\* accepts only on a bound listener: the listener becomes bound only in a step
\* from the state after a successful registration; a failed registration or
\* a failed bind is final; and as long as the listener is not bound no
\* connection is accepted and no task exists.
C13_RegisterThenBind ==
  [][ /\ main = "register" => main' \in { "register", "bind", "register_failed" }
      /\ ( main # "accept" /\ main' = "accept" ) => main = "bind"
      /\ main \in { "register_failed", "bind_failed" } => main' = main
      /\ main \in { "register", "register_failed", "bind", "bind_failed" }
           => \A c \in Conns : /\ sock[c] = "none" /\ sock'[c] = "none"
                                /\ pc[c] = "none" /\ pc'[c] = "none" ]_vars

\* the registration succeeded and the bind failed: nothing was accepted
C13_Witness ==
  /\ main = "bind_failed"
  /\ \A c \in Conns : sock[c] = "none" /\ pc[c] = "none"
  /\ sent = 0

\* C14: no step changes the identity (node_id, cluster_id, incarnation_id,
\* listener, advertised_listener) of the broker of serve or of the clone held
\* by a task, every task holds the identity of the broker that spawned it,
\* and no step changes the task-local state of two connections: what one
\* task writes, no other task reads.
C14_NoSharedDispatcherState ==
  [][ /\ broker'[0] = broker[0]
      /\ \A c \in Conns :
           /\ pc[c] # "none" => ( broker[c] = broker[0] /\ broker'[c] = broker[c] )
           /\ ( pc[c] = "none" /\ pc'[c] # "none" ) => broker'[c] = broker[0]
      /\ \A c, d \in Conns :
           c # d =>
             ~ ( /\ << pc[c], nread[c], cur[c], call[c], response[c], broker[c] >>'
                      # << pc[c], nread[c], cur[c], call[c], response[c], broker[c] >>
                 /\ << pc[d], nread[d], cur[d], call[d], response[d], broker[d] >>'
                      # << pc[d], nread[d], cur[d], call[d], response[d], broker[d] >> )
    ]_vars

\* two tasks at work at once, a handler in flight in one and a response held
\* in the other, each with the identity the broker was built with
C14_Witness ==
  \E c, d \in Conns :
    /\ c # d /\ pc[c] = "handler" /\ pc[d] = "write"
    /\ broker[c] = NewBroker /\ broker[d] = NewBroker /\ broker[0] = NewBroker

\* C15: the attributes given to api_requests.add for the request in hand
\* carry api_key, api_version, correlation_id, api_name, cluster_id and peer,
\* whatever the request.
C15_SixAttributes ==
  \A c \in Conns :
    sample[c] # NoSample =>
      { "api_key", "api_version", "correlation_id", "api_name", "cluster_id", "peer" }
        \subseteq { a[1] : a \in sample[c] }

\* C16: the `records` attribute given to api_requests.add for a Produce
\* request is the number of records announced by the batches of the request:
\* the sum of record_count over every batch of every partition of every
\* topic, an absent topic_data, partition_data or records frame counting 0.
C16_RecordsAttribute ==
  \A c \in Conns :
    ( sample[c] # NoSample /\ cur[c].api_key = "Produce" ) =>
      LET td == TopicData(cur[c])
          announced ==
            { x \in (1..2) \X (1..2) \X (1..2) \X (1..3) :
                /\ td # None
                /\ x[1] <= Len(td[1])
                /\ td[1][x[1]] # None
                /\ x[2] <= Len(td[1][x[1]][1])
                /\ td[1][x[1]][1][x[2]] # None
                /\ x[3] <= Len(td[1][x[1]][1][x[2]][1])
                /\ x[4] <= td[1][x[1]][1][x[2]][1][x[3]] }
      IN { a[2] : a \in { b \in sample[c] : b[1] = "records" } }
           = { Cardinality(announced) }

\* a Produce of two topics, the first without partition_data and the second
\* with batches of 2 and 3 records, was counted with records = 5
C16_Witness ==
  \E c \in Conns :
    /\ cur[c].api_key = "Produce" /\ << "records", 5 >> \in sample[c]
    /\ TopicData(cur[c]) = Some(<< None, Some(<< Some(<< 2, 3 >>) >>) >>)

\* C18: every record built from a Builder has length = 1 (attributes) + the
\* varint size of timestamp_delta + the varint size of offset_delta + the
\* sizes of key, value and headers, an absent byte field taking 1 byte and a
\* present one of n bytes taking varint_len(n) + n; and the encoded record is
\* exactly length + varint_len(length) bytes long (9 and 10 for the record
\* whose value is [100, 101, 102]).  The sizes are those of the bytes the
\* encoder writes.
C18_RecordLength ==
  record # None =>
    LET b == builder[1]
        r == record[1]
        varint_len(n) == Len(VarIntBytes(n))
        bytes_len(o) == IF o = None THEN 1 ELSE varint_len(Len(o[1])) + Len(o[1])
    IN /\ r.length = 1 + varint_len(b.timestamp_delta) + varint_len(b.offset_delta)
                       + bytes_len(b.key) + bytes_len(b.value)
                       + Len(HeadersBytes(b.headers))
       /\ Len(RecordBytes(r)) = r.length + varint_len(r.length)
       /\ encoded # None => Len(encoded[1]) = r.length + varint_len(r.length)
       /\ b = ReferenceRecord =>
            /\ r.length = 9
            /\ encoded # None => encoded[1] = << 18, 0, 0, 0, 1, 6, 100, 101, 102, 0 >>

\* a record with a 64-byte value is built and serialized: the length of the
\* value and the length of the record both take two varint groups
C18_Witness ==
  /\ record # None /\ encoded # None
  /\ builder[1].value = Some(Filler) /\ builder[1].key = Some(<< 107 >>)
  /\ Len(encoded[1]) = record[1].length + 2

\* the batch of the tests: the reference builder with the reference record
ReferenceBuilder == [ ReferenceBatch EXCEPT !.records = << ReferenceRecord >> ]

\* C19: for every batch the batch builder produces, batch_length is the
\* number of encoded bytes that follow the batch_length field, so the encoded
\* batch is 12 + batch_length bytes long; and batch_length is 49 + the encoded
\* sizes of its records (49 for an empty batch, 59 for the batch of the single
\* 10-byte record).
C19_BatchLength ==
  batch # None =>
    LET b == batch[1]
    IN /\ b.batch_length
            = 49 + Sum([ i \in 1..Len(b.records) |-> Len(RecordBytes(b.records[i])) ])
       /\ encoded # None =>
            /\ Len(encoded[1]) = 12 + b.batch_length
            /\ Signed(SubSeq(encoded[1], 9, 12)) = Len(encoded[1]) - 12
       /\ b.records = << >> => b.batch_length = 49
       /\ builder[1] = ReferenceBuilder => b.batch_length = 59

\* a batch of two records, one with a key, is built and encoded
C19_Witness ==
  /\ batch # None /\ encoded # None
  /\ Len(batch[1].records) = 2
  /\ batch[1].records[1].key # None
  /\ batch[1].batch_length > 59

\* the encoded batch of tests::batch_decode
ReferenceBytes ==
  << 0, 0, 0, 0, 0, 0, 0, 0, 0, 0, 0, 59, 255, 255, 255, 255, 2, 67, 41, 231, 61, 0, 0, 0,
     0, 0, 0, 0, 0, 1, 141, 116, 152, 137, 53, 0, 0, 1, 141, 116, 152, 137, 53, 0, 0, 0, 0,
     0, 0, 0, 1, 0, 0, 0, 0, 0, 1, 0, 0, 0, 1, 18, 0, 0, 0, 1, 6, 100, 101, 102, 0 >>

\* C17: decoding the encoded bytes of a valid batch yields a batch equal to
\* it in every field, batch_length, crc and the records in order included,
\* and nothing of the input is left; the bytes of tests::batch_decode decode
\* to the batch of the reference builder.
C17_BatchRoundTrip ==
  /\ decoded # None => decoded[1] = Read(batch[1], << >>)
  /\ (batch # None /\ builder[1] = ReferenceBuilder) =>
       BatchRead(ReferenceBytes) = Read(batch[1], << >>)

\* a batch of two different records, a tombstone among them, came back from
\* the decoder
C17_Witness ==
  /\ decoded # None
  /\ \E d \in decoded[1] :
       /\ Len(d.value.records) = 2
       /\ d.value.records[1].key = None
       /\ d.value.records[2].key # None
       /\ d.value.records[2].value = None

\* C20: the crc field of every built batch is the checksum of exactly the
\* encoded bytes from the attributes field (the 22nd byte) through the last
\* record byte: base_offset, batch_length, partition_leader_epoch, magic and
\* the crc field itself, the 21 bytes in front, are not checksummed.  The
\* crc of the reference batch is 1_126_819_645.
C20_CrcRange ==
  (batch # None /\ encoded # None) =>
    LET bytes == encoded[1]
    IN /\ SubSeq(bytes, 18, 21) = batch[1].crc
       /\ batch[1].crc = Crc32c(SubSeq(bytes, 22, Len(bytes)))
       /\ SubSeq(bytes, 22, 23) = BE(batch[1].attributes, 2)
       /\ builder[1] = ReferenceBuilder => batch[1].crc = BE(1126819645, 4)

\* the reference batch is built and encoded
C20_Witness ==
  /\ batch # None /\ encoded # None
  /\ builder[1] = ReferenceBuilder
  /\ SubSeq(encoded[1], 18, 21) = << 67, 41, 231, 61 >>

C22_AttributesWrittenZero ==
  encoded # None =>
    encoded[1][VarIntSize(size_in_bytes(builder[1])) + 1] = 0

\* C23: with key and value each absent, present with zero length, or present
\* and not empty, decoding the encoded record gives back the same key and the
\* same value: an absent field (length varint -1, byte 1) is never read as a
\* zero-length one (length varint 0, byte 0), nor the reverse.
C23_KeyValueRoundTrip ==
  decoded # None =>
    /\ decoded[1] # Malformed
    /\ \A d \in decoded[1] :
         /\ d.rest = << >>
         /\ d.value.key = builder[1].key
         /\ d.value.value = builder[1].value
    /\ LET at == VarIntSize(size_in_bytes(builder[1])) + 1
                   + VarIntSize(builder[1].timestamp_delta)
                   + VarIntSize(builder[1].offset_delta) + 1
       IN /\ builder[1].key = None <=> encoded[1][at] = 1
          /\ builder[1].key = Some(<< >>) <=> encoded[1][at] = 0

\* a record with a zero-length key and no value came back from the decoder
C23_Witness ==
  /\ decoded # None
  /\ builder[1].key = Some(<< >>) /\ builder[1].value = None
  /\ \E d \in decoded[1] : d.value.key = Some(<< >>) /\ d.value.value = None

\* the bytes of the varint that starts at index `at` of `bytes`: up to and
\* including the first byte without the continuation bit
VarIntAt(bytes, at) ==
  SubSeq(bytes, at, CHOOSE j \in at..Len(bytes) :
                      /\ bytes[j] < 128
                      /\ \A i \in at..(j - 1) : bytes[i] >= 128)

\* C24: for every i32 n, i32::MIN and i32::MAX included, the varint encoder
\* of the record writes the base-128 groups of the zig-zag value
\* (n << 1) XOR (n >> 31), least significant group first, no more groups
\* than the value needs, and the decoder reads n back; 9 is written as 18,
\* 3 as 6, 0 as 0 and -1 as 1.  (The zig-zag value is 2 * m + s with s the
\* sign bit of n and m = n or -n - 1; its group i is taken from m, so that
\* no number leaves the 32-bit range.)
C24_VarIntZigZag ==
  encoded # None =>
    LET n == builder[1].offset_delta
        w == VarIntAt(encoded[1], VarIntSize(size_in_bytes(builder[1])) + 1
                                    + VarIntSize(builder[1].timestamp_delta) + 1)
        s == IF n < 0 THEN 1 ELSE 0
        m == IF n < 0 THEN -(n + 1) ELSE n
        group(i) == IF i = 1 THEN 2 * (m % 64) + s
                    ELSE (m \div (64 * 128 ^ (i - 2))) % 128
    IN /\ \A i \in 1..Len(w) : w[i] % 128 = group(i)
       /\ \A i \in (Len(w) + 1)..5 : group(i) = 0
       /\ Len(w) > 1 => group(Len(w)) # 0
       /\ n = 9 => w = << 18 >>
       /\ n = 3 => w = << 6 >>
       /\ n = 0 => w = << 0 >>
       /\ n = -1 => w = << 1 >>
       /\ n = MaxI32 => w = << 254, 255, 255, 255, 15 >>
       /\ n = MinI32 => w = << 255, 255, 255, 255, 15 >>
       /\ decoded # None =>
            /\ decoded[1] # Malformed
            /\ \A d \in decoded[1] : d.value.offset_delta = n

\* a record with offset_delta i32::MIN was serialized and read back
C24_Witness ==
  /\ encoded # None /\ decoded # None
  /\ builder[1].offset_delta = MinI32
  /\ \E d \in decoded[1] : d.value.offset_delta = MinI32

\* C25: Record::is_tombstone is true exactly when the key is present and the
\* value is absent, for the record built from the builder and for the record
\* read back from its bytes (value length byte 1, key length byte not 1): a
\* present key with a present value of zero length is no tombstone, and a
\* record without a key never is.
C25_Tombstone ==
  /\ record # None =>
       /\ is_tombstone(record[1])
            <=> (builder[1].key # None /\ builder[1].value = None)
       /\ builder[1].key # None /\ builder[1].value = Some(<< >>)
            => ~ is_tombstone(record[1])
       /\ builder[1].key = None => ~ is_tombstone(record[1])
  /\ decoded # None =>
       LET key == VarIntSize(size_in_bytes(builder[1])) + 1
                    + VarIntSize(builder[1].timestamp_delta)
                    + VarIntSize(builder[1].offset_delta) + 1
           value == key + OctetsSize(builder[1].key)
       IN \A d \in decoded[1] :
            is_tombstone(d.value)
              <=> (encoded[1][key] # 1 /\ encoded[1][value] = 1)

\* a record with a key and no value was built and read back, a tombstone
\* both times
C25_Witness ==
  /\ record # None /\ decoded # None
  /\ builder[1].key = Some(<< 107 >>) /\ builder[1].value = None
  /\ is_tombstone(record[1])
  /\ \E d \in decoded[1] : is_tombstone(d.value)

\* C29, as stated: response_size and request_duration are recorded after the
\* response has been written, so that at no time has a connection more
\* samples of either than responses written, and a response whose write
\* fails leaves no sample.
C29_RecordedAfterWrite ==
  \A c \in Conns :
    /\ metrics[c].response_size <= Len(out[c])
    /\ metrics[c].request_duration <= Len(out[c])

\* C29, amended: response_size and request_duration are recorded together
\* when process_request has returned the encoded response and before
\* write_all is awaited: while the write is awaited, and after it has failed,
\* the connection has one sample of each more than responses written, and
\* otherwise as many.
C29_RecordedBeforeWrite ==
  \A c \in Conns :
    /\ metrics[c].response_size = metrics[c].request_duration
    /\ metrics[c].response_size =
         Len(out[c]) + IF pc[c] = "write" \/ "write_all" \in errors[c] THEN 1 ELSE 0

\* the write of a response failed and its two samples are recorded
C29_Witness ==
  \E c \in Conns :
    /\ pc[c] = "done" /\ result[c].err = "Io" /\ "write_all" \in errors[c]
    /\ metrics[c].response_size = Len(out[c]) + 1
    /\ metrics[c].request_duration = Len(out[c]) + 1

\* C30: on every connection request_size >= api_requests >= response_size
\* and neighbours differ by at most 1: request_size counts every frame of
\* positive size read in full, also one that does not decode; api_requests
\* counts every decoded request, before the handler runs and also when the
\* handler fails; response_size counts the requests whose response was
\* encoded.
C30_MetricsOrder ==
  \A c \in Conns :
    LET m == metrics[c] IN
    /\ m.request_size >= m.api_requests
    /\ m.api_requests >= m.response_size
    /\ m.request_size - m.api_requests <= 1
    /\ m.api_requests - m.response_size <= 1
    /\ m.request_size = nread[c] - IF pc[c] = "read_body" \/ "read_body" \in errors[c]
                                   THEN 1 ELSE 0
    /\ result[c].err = "Decode" => m.request_size = m.api_requests + 1
    /\ pc[c] = "process" => m.request_size = m.api_requests + 1
    /\ pc[c] = "handler" =>
         m.request_size = m.api_requests /\ m.api_requests = m.response_size + 1
    /\ result[c].err \in { "Storage", "Coordinator", "Encode", "TryFrom" } =>
         m.request_size = m.api_requests /\ m.api_requests = m.response_size + 1
    /\ pc[c] = "write" =>
         m.request_size = m.api_requests /\ m.api_requests = m.response_size

\* a connection answered one request and its next frame did not decode: two
\* samples of request_size, one increment of api_requests, one response_size
C30_Witness ==
  \E c \in Conns :
    /\ result[c].err = "Decode"
    /\ metrics[c].request_size = 2
    /\ metrics[c].api_requests = 1
    /\ metrics[c].response_size = 1

\* C31: serializing a record builder never reports success unless its length
\* prefix was written: when serialize returns Ok, the bytes written begin
\* with the size as a VarInt and are the whole record.
C31_NoSuccessWithoutPrefix ==
  returned = Some("Ok") =>
    LET size == size_in_bytes(builder[1]) IN
    /\ Len(encoded[1]) = VarIntSize(size) + size
    /\ SubSeq(encoded[1], 1, VarIntSize(size)) = VarIntBytes(size)

\* C32: a request whose body has no arm of its own in response_for is never
\* answered.  The step that decodes it counts it in api_requests and ends
\* the task of its connection (the catch-all arm logs the request and
\* panics): nothing is written and no response_size is recorded for it, the
\* socket is dropped, and the accept loop and every other connection are
\* left as they were.
C32_UnhandledNeverAnswered ==
  /\ [] ( \A c \in Conns :
            cur[c].api_key # "Unhandled" /\ response[c].api_key # "Unhandled"
            /\ \A i \in 1..Len(out[c]) : out[c][i].idx <= metrics[c].response_size )
  /\ [][ \A c \in Conns :
           ( pc[c] = "process" /\ "unimplemented" \in errors'[c] ) =>
             /\ pc'[c] = "done" /\ result'[c] = OtherError("Panic")
             /\ sock'[c] = "dropped"
             /\ out'[c] = out[c]
             /\ metrics'[c] = [ metrics[c] EXCEPT !.api_requests = @ + 1 ]
             /\ errors'[c] = errors[c] \cup { "unimplemented" }
             /\ main' = main
             /\ \A d \in Conns \ { c } :
                  /\ pc'[d] = pc[d] /\ sock'[d] = sock[d] /\ inbuf'[d] = inbuf[d]
                  /\ cur'[d] = cur[d] /\ call'[d] = call[d]
                  /\ response'[d] = response[d] /\ out'[d] = out[d]
                  /\ result'[d] = result[d] /\ errors'[d] = errors[d]
                  /\ metrics'[d] = metrics[d] ]_vars

\* the task of one connection ended in the catch-all arm, its request counted
\* and not answered; the loop accepts and another connection was answered
C32_Witness ==
  \E c, d \in Conns :
    /\ c # d /\ main = "accept"
    /\ pc[c] = "done" /\ result[c] = OtherError("Panic")
    /\ "unimplemented" \in errors[c]
    /\ metrics[c].api_requests = 1 /\ metrics[c].response_size = 0
    /\ out[c] = << >>
    /\ Len(out[d]) = 1 /\ pc[d] = "read_size"

\* C33: a frame whose size prefix is a negative i32, from -1 to -4 (where
\* size + 4 wraps to a length below 4) as well as below, never has its body
\* read, is never counted or handed to a handler, and has no byte written
\* for it: the step the task takes on it ends the task.
C33_NegativeSizeEndsTask ==
  /\ [] ( \A c \in Conns :
            pc[c] \in { "read_body", "process", "handler", "write" }
              => nread[c] > 0 /\ ( pc[c] = "read_body" => inbuf[c][1].size > 0 ) )
  /\ [][ \A c \in Conns :
           ( /\ pc[c] = "read_size" /\ inbuf[c] # << >> /\ inbuf[c][1].size < 0
             /\ << pc[c], inbuf[c] >> # << pc'[c], inbuf'[c] >>
             /\ Len(inbuf'[c]) <= Len(inbuf[c]) ) =>
             /\ pc'[c] = "done" /\ result'[c] # NoError
             /\ sock'[c] = "dropped"
             /\ out'[c] = out[c] /\ metrics'[c] = metrics[c]
             /\ nread'[c] = nread[c]
             /\ cur'[c] = NoRequest /\ call'[c] = NoCall
             /\ response'[c] = NoResponse ]_vars

\* a task answered a request and then ended in the panic of a negative
\* prefix, which logs nothing
C33_Witness ==
  \E c \in Conns :
    /\ pc[c] = "done" /\ result[c] = OtherError("Panic") /\ errors[c] = {}
    /\ Len(out[c]) = 1 /\ nread[c] = 1
    /\ metrics[c].request_size = 1

\* C34: when accept() fails, listen returns the error: the loop is left for
\* good and no connection is accepted afterwards.  The step changes nothing
\* of the tasks spawned before, and with the loop gone each of them can still
\* take its next step: read a buffered prefix, dispatch, have its call
\* return, write its response.
C34_AcceptFailureEndsListen ==
  /\ [][ main = "accept_failed" =>
           /\ main' = "accept_failed"
           /\ \A c \in Conns : sock[c] = "none" => sock'[c] = "none" /\ pc'[c] = "none"
       ]_vars
  /\ [][ ( main = "accept" /\ main' = "accept_failed" ) =>
           \A c \in Conns :
             /\ pc'[c] = pc[c] /\ sock'[c] = sock[c] /\ inbuf'[c] = inbuf[c]
             /\ cur'[c] = cur[c] /\ call'[c] = call[c]
             /\ response'[c] = response[c] /\ out'[c] = out[c]
             /\ result'[c] = result[c] /\ errors'[c] = errors[c]
             /\ metrics'[c] = metrics[c] /\ broker'[c] = broker[c] ]_vars
  /\ [] ( main = "accept_failed" =>
            \A c \in Conns :
              /\ ( pc[c] = "read_size" /\ inbuf[c] # << >> ) => ENABLED ReadSize(c)
              /\ pc[c] = "process" => ENABLED ProcessRequest(c)
              /\ pc[c] = "handler" => ENABLED ( HandlerReturn(c) \/ HandlerError(c) )
              /\ pc[c] = "write" => ENABLED Write(c) )

\* accept() has failed with one connection accepted and the other never; the
\* task of the first has answered a request and holds the response to a second
C34_Witness ==
  /\ main = "accept_failed"
  /\ sock[2] = "none" /\ pc[2] = "none"
  /\ pc[1] = "write" /\ Len(out[1]) = 1 /\ nread[1] = 2

\* C35: a ListOffsets request without isolation_level is handed to its
\* handler as ReadUncommitted; one whose isolation_level is present and no
\* IsolationLevel is never handed to the handler (no ListOffsets request in
\* hand carries such a level), and the step that decodes it ends the task
\* of its connection with the conversion error and nothing written.
C35_IsolationLevel ==
  /\ [] ( \A c \in Conns :
            cur[c].api_key = "ListOffsets" =>
              /\ pc[c] \in { "handler", "write" }
              /\ cur[c].arg # None => cur[c].arg[1] \in { 0, 1 }
              /\ cur[c].arg = None => isolation_level(cur[c].arg) = Some("ReadUncommitted") )
  /\ [][ \A c \in Conns :
           ( pc[c] = "process" /\ result'[c] = OtherError("TryFrom") ) =>
             /\ pc'[c] = "done" /\ sock'[c] = "dropped"
             /\ out'[c] = out[c]
             /\ cur'[c] = NoRequest /\ call'[c] = NoCall
             /\ response'[c] = NoResponse
             /\ metrics'[c].response_size = metrics[c].response_size ]_vars

\* a connection was answered once and its next request, a ListOffsets with
\* level 2, was counted and ended the task
C35_Witness ==
  \E c \in Conns :
    /\ pc[c] = "done" /\ result[c] = OtherError("TryFrom")
    /\ Len(out[c]) = 1 /\ nread[c] = 2
    /\ metrics[c].api_requests = 2

\* C36: Builder::from(Record::try_from(b)) is b for every builder b, and
\* Record::try_from(Builder::from(r)) is r in every field but length, which
\* becomes the encoded size of the other fields: the result is r exactly
\* when r.length was that size already.
C36_BuilderRecordRoundTrip ==
  ( builder # None /\ record # None ) =>
    LET b == builder[1]
        r == record[1]
        size == 1 + VarIntSize(r.timestamp_delta) + VarIntSize(r.offset_delta)
                  + OctetsSize(r.key) + OctetsSize(r.value) + HeadersSize(r.headers)
    IN /\ from(r) = b
       /\ try_from(b) = [ r EXCEPT !.length = size ]
       /\ from(try_from(b)) = b
       /\ ( try_from(from(r)) = r ) <=> ( r.length = size )
       /\ \A f \in { "attributes", "timestamp_delta", "offset_delta", "key", "value", "headers" } :
            try_from(from(r))[f] = r[f]

\* a record whose length is not the size of its fields was made a builder,
\* and the record built from that builder differs from it, in length only
C36_Witness ==
  /\ builder # None /\ record # None
  /\ record[1].length = -1
  /\ record[1].key = Some(<< 107 >>) /\ record[1].value = Some(<< >>)
  /\ try_from(builder[1]) # record[1]
  /\ try_from(builder[1]).length = size_in_bytes(builder[1])

\* C37: the attributes given to api_requests for a Fetch request whose
\* max_bytes is present hold a max_bytes entry with that value, next to
\* api_name, max_wait_ms and min_bytes.
C37_FetchMaxBytes ==
  \A c \in Conns :
    ( cur[c].api_key = "Fetch" /\ cur[c].arg # None ) =>
      /\ << "api_name", "fetch" >> \in sample[c]
      /\ { "max_wait_ms", "min_bytes" } \subseteq { a[1] : a \in sample[c] }
      /\ << "max_bytes", cur[c].arg[1] >> \in sample[c]

====
